---------------------------- MODULE Spec2Model ----------------------------
(***************************************************************************)
(* A model of the course-content browser: the content store               *)
(* (js/content-data.js: load, getChaptersByPart, search,                  *)
(* getFlattenedContent) and the mind-map views that keep an expansion      *)
(* state (js/mindmap.js and the D3 tree variant).                          *)
(*                                                                         *)
(* Each component has its own specification (SpecLoad, SpecFlat,           *)
(* SpecSearch, SpecMap); the variables of the other components stay at     *)
(* their idle values.                                                      *)
(***************************************************************************)
EXTENDS Integers, Sequences, FiniteSets, TLC

VARIABLES
    \* ContentData fields (content-data.js:7-10) and the promise chain of load()
    courseData,       \* this.courseData: Null or the parsed document
    loadingPromise,   \* this.loadingPromise: Null or the promise of the chain
    chain,            \* where the fetch(...).then(...).then(...).catch(...) chain stands
    fetchCount,       \* number of fetch('data/course-content.json') calls issued
    calls,            \* the load() calls made so far, in order, with what each returned
    \* callers of getFlattenedContent()
    items,            \* what the latest getFlattenedContent() call returned (<<>>: no call yet)
    prevItems,        \* what the call before it returned
    \* callers of search()
    query,            \* the argument the caller passes to search()
    searched,         \* whether search(query) has been called
    results,          \* what search(query) returned
    \* MindMap (the variants that track expansion)
    variant,          \* which MindMap class the page loads: "force", "vertical" or "tree"
    allItems,         \* this.allItems
    expandedNodes,    \* this.expandedNodes ("force", "vertical")
    nodes,            \* the rendered nodes: [id, hasChildren, isExpanded] (this.nodes)
    treeChildren,     \* d.children of every hierarchy node, <<>> for none ("tree")
    treeHidden,       \* d._children of every hierarchy node, <<>> for none ("tree")
    \* history of the clicks, for the claims
    lastClick,        \* the latest click: [node, op], op "collapse", "expand" or "none"
    prevClick,        \* the click before it
    before,           \* [expanded, visible] as they were before the latest click
    before2,          \* [expanded, visible] as they were before the click before it
    emitted,          \* the events the latest click dispatched on document, in order
    \* App (the class with view modes and bookmarks; the class of main.js)
    appClass,         \* which App class the page loads: "views" or "guide"
    appPhase,         \* "constructed", then "ready" or "error" once init() has run
    listeners,        \* whether attachEventListeners() has run
    viewSet,          \* whether setView() has been called
    currentView,      \* this.currentView: "mindmap", "content" or "both"
    innerWidth,       \* window.innerWidth
    bookmarks,        \* this.bookmarks
    sidebarHidden,    \* whether bookmarksSidebar has the class 'hidden'
    storage,          \* localStorage: the entries 'ob_bookmarks' and 'ob_visited'
    storageReads,     \* number of getItem('ob_bookmarks') calls
    quickGuide,       \* the quick guide: "untouched", "shown" or "hidden"
    lastEvent,        \* the latest App event, with the view and entry it found
    prevEvent,        \* the event before it
    \* Search (the search box and the results panel)
    now,              \* the time, in milliseconds
    debounceTimer,    \* this.debounceTimer: 0 for null, else the id setTimeout returned
    timers,           \* the pending timers: [id, query, due]
    nextTimer,        \* the id the next setTimeout returns
    inputLog,         \* the input events handled: [at, value, timer]
    firedLog,         \* the timer callbacks run: [at, query, timer, searched]
    resultsHidden,    \* whether searchResults has the class 'hidden'
    resultsList,      \* what searchResultsList shows: [kind, query, total, shown]
    lastUi,           \* the latest step: "none", "input", "fire", "hide", "clear" or "time"
    lastHide,         \* the latest hide or clear by the user: [op, inputs, fired]
    \* callers of Search.highlightQuery and Search.showResults
    renderInput,      \* the arguments: [op, text, query] or [op, results, query]
    rendered,         \* what the call produced: [done, threw, ...]
    \* App.init (both App classes): the start of the page
    startClass,       \* which App class runs init(): "views" or "guide"
    initPhase,        \* where init() stands: "constructed", "awaitLoad", ..., "ready" or "error"
    initCall,         \* the index in calls of the load() call init() awaits (0: none yet)
    built,            \* the modules init() has built, in the order it built them
    errorPane,        \* what showError() wrote into the content pane (NoError: nothing)
    \* Navigation (the tree of parts, chapters, sections and takeaways)
    navData,          \* the course document the Navigation renders
    navExpanded,      \* the .nav-part and .nav-chapter elements with the class 'expanded'
    navClick,         \* the latest click: [kind, part, chapter]
    navBefore,        \* navExpanded as it was before the latest click
    navEmitted,       \* the events the latest click dispatched on document, in order
    \* the export and share buttons (App.attachEventListeners)
    toolEnv,          \* the page the buttons act on: [map, app, surface, share, clipboard]
    jobs              \* the exportAsImage() and shareContent() calls made, in order, with what each did

loadVars == <<courseData, loadingPromise, chain, fetchCount, calls>>
flatVars == <<items, prevItems>>
searchVars == <<query, searched, results>>
mapVars == <<variant, allItems, expandedNodes, nodes, treeChildren, treeHidden,
             lastClick, prevClick, before, before2, emitted>>

appVars == <<appClass, appPhase, listeners, viewSet, currentView, innerWidth,
             bookmarks, sidebarHidden, storage, storageReads, quickGuide,
             lastEvent, prevEvent>>

uiVars == <<now, debounceTimer, timers, nextTimer, inputLog, firedLog,
            resultsHidden, resultsList, lastUi, lastHide>>

renderVars == <<renderInput, rendered>>

startVars == <<startClass, initPhase, initCall, built, errorPane>>

navVars == <<navData, navExpanded, navClick, navBefore, navEmitted>>

toolVars == <<toolEnv, jobs>>

vars == <<loadVars, flatVars, searchVars, mapVars, appVars, uiVars,
          renderVars, startVars, navVars, toolVars>>

\* What the steps of one component leave alone.
otherThanLoad == <<flatVars, searchVars, mapVars, appVars, uiVars,
                   renderVars, startVars, navVars, toolVars>>
otherThanFlat == <<loadVars, searchVars, mapVars, appVars, uiVars,
                   renderVars, startVars, navVars, toolVars>>
otherThanSearch == <<loadVars, flatVars, mapVars, appVars, uiVars,
                     renderVars, startVars, navVars, toolVars>>
otherThanMap == <<loadVars, flatVars, searchVars, appVars, uiVars,
                  renderVars, startVars, navVars, toolVars>>
otherThanApp == <<loadVars, flatVars, searchVars, mapVars, uiVars,
                  renderVars, startVars, navVars, toolVars>>
otherThanUi == <<loadVars, flatVars, searchVars, mapVars, appVars,
                 renderVars, startVars, navVars, toolVars>>
otherThanRender == <<loadVars, flatVars, searchVars, mapVars, appVars,
                     uiVars, startVars, navVars, toolVars>>
otherThanStart == <<loadVars, flatVars, searchVars, mapVars, appVars, uiVars,
                    renderVars, navVars, toolVars>>
otherThanNav == <<loadVars, flatVars, searchVars, mapVars, appVars, uiVars,
                  renderVars, startVars, toolVars>>
otherThanTool == <<loadVars, flatVars, searchVars, mapVars, appVars, uiVars,
                   renderVars, startVars, navVars>>

Null == "null"

(***************************************************************************)
(* Bounds                                                                  *)
(***************************************************************************)
MaxCalls == 3
\* chapter numbers of the documents are drawn from 1..MaxChapters
MaxChapters == 2
\* the longest keyTakeaways list of the documents
MaxTakeaways == 6
\* the longest search query
MaxQueryLen == 2

(***************************************************************************)
(* ContentData.load (content-data.js:16-43)                                *)
(***************************************************************************)

\* What response.json() can resolve with: a course document, or a JSON value
\* that is falsy in JavaScript (null, 0, false, "").
JsonValues == {"doc", "falsyJson"}

\* The errors the chain can fail with: fetch rejects, !response.ok, json() rejects.
LoadErrors == {"network", "http", "parse"}

\* JavaScript truthiness of this.courseData / this.loadingPromise.
Truthy(v) == v \notin {Null, "falsyJson"}

NoPromise == [state |-> Null, value |-> Null]

LoadInit ==
    /\ courseData = Null
    /\ loadingPromise = NoPromise
    /\ chain = [stage |-> "none", value |-> Null]
    /\ fetchCount = 0
    /\ calls = <<>>

\* The store after one load() has succeeded with the document `data`.
Loaded(data) ==
    /\ courseData = data
    /\ loadingPromise = [state |-> "fulfilled", value |-> "doc"]
    /\ chain = [stage |-> "settled", value |-> "doc"]
    /\ fetchCount = 1
    /\ calls = <<[phase |-> "first", via |-> "promise", fetched |-> TRUE,
                  state |-> "fulfilled", value |-> "doc"]>>

FlatIdle == items = <<>> /\ prevItems = <<>>

\* No search() call yet.
NoQuery == [kind |-> "none", text |-> <<>>]
SearchIdle == query = NoQuery /\ searched = FALSE /\ results = <<>>

\* No click yet.
Breakpoint == 768

\* A localStorage entry: getItem returns null for an absent key, else the
\* stored string, here its sequence of tokens.
Absent == [present |-> FALSE, text |-> <<>>]
Entry(text) == [present |-> TRUE, text |-> text]

NoEvent == [kind |-> "none", view |-> "none", width |-> 0, entry |-> Absent]

\* No App on the page.
AppIdle ==
    /\ appClass = "none"
    /\ appPhase = "none"
    /\ listeners = FALSE
    /\ viewSet = FALSE
    /\ currentView = "none"
    /\ innerWidth = Breakpoint
    /\ bookmarks = <<>>
    /\ sidebarHidden = TRUE
    /\ storage = [key \in {"ob_bookmarks", "ob_visited"} |-> Absent]
    /\ storageReads = 0
    /\ quickGuide = "untouched"
    /\ lastEvent = NoEvent
    /\ prevEvent = NoEvent

\* The results list before anything was put into it.
NoList == [kind |-> "empty", query |-> <<>>, total |-> 0, shown |-> 0]

\* The Search constructor (Search file 7-15): no timer, nothing shown.
UiIdle ==
    /\ now = 0
    /\ debounceTimer = 0
    /\ timers = {}
    /\ nextTimer = 1
    /\ inputLog = <<>>
    /\ firedLog = <<>>
    /\ resultsHidden = TRUE
    /\ resultsList = NoList
    /\ lastUi = "none"
    /\ lastHide = [op |-> "none", inputs |-> 0, fired |-> 0]

\* No App has been started.
StartIdle == startClass = "none" /\ initPhase = "none" /\ initCall = 0 /\ built = <<>> /\ errorPane = "none"

\* No Navigation on the page.
NavIdle == navData = [parts |-> <<>>, chapters |-> <<>>] /\ navExpanded = {} /\ navClick = [kind |-> "none", chapter |-> 0] /\ navBefore = {} /\ navEmitted = <<>>

\* No export or share button on the page.
ToolIdle == toolEnv = [map |-> "none"] /\ jobs = <<>>

\* Nothing rendered and nothing to render.
NotRendered == [done |-> FALSE]
RenderIdle == renderInput = [op |-> "none"] /\ rendered = NotRendered

NoClick == [node |-> <<>>, op |-> "none"]
NoSnapshot == [expanded |-> {}, visible |-> {}]

\* No MindMap constructed.
MapIdle ==
    /\ variant = "none"
    /\ allItems = <<>>
    /\ expandedNodes = {}
    /\ nodes = <<>>
    /\ treeChildren = <<>>
    /\ treeHidden = <<>>
    /\ lastClick = NoClick
    /\ prevClick = NoClick
    /\ before = NoSnapshot
    /\ before2 = NoSnapshot
    /\ emitted = <<>>

\* The part of the state load() was called in, kept with the call.
LoadPhase ==
    IF Truthy(courseData) THEN "cached"
    ELSE IF loadingPromise.state = Null THEN "first"
    ELSE IF loadingPromise.state = "pending" THEN "inflight"
    ELSE IF loadingPromise.state = "fulfilled" THEN "succeeded"
    ELSE "failed"

\* A plausible bug: no memoized promise, every call before the data arrives fetches.
LoadNoMemo ==
    /\ Len(calls) < MaxCalls
    /\ IF Truthy(courseData)
       THEN /\ calls' = Append(calls, [phase |-> LoadPhase, via |-> "cache", fetched |-> FALSE,
                                       state |-> "fulfilled", value |-> courseData])
            /\ UNCHANGED <<courseData, loadingPromise, chain, fetchCount>>
       ELSE /\ fetchCount' = fetchCount + 1
            /\ chain' = [stage |-> "inflight", value |-> Null]
            /\ loadingPromise' = [state |-> "pending", value |-> Null]
            /\ calls' = Append(calls, [phase |-> LoadPhase, via |-> "promise", fetched |-> TRUE,
                                       state |-> "pending", value |-> Null])
            /\ UNCHANGED courseData

\* load(): lines 17-19 return the cached data, lines 21-23 the memoized promise,
\* lines 25-42 issue the fetch and memoize the chain's promise.  The async
\* function's own promise follows what is returned (CallSettles).
Load ==
    /\ Len(calls) < MaxCalls
    /\ IF Truthy(courseData)
       THEN /\ calls' = Append(calls, [phase |-> LoadPhase, via |-> "cache", fetched |-> FALSE,
                                       state |-> "fulfilled", value |-> courseData])
            /\ UNCHANGED <<courseData, loadingPromise, chain, fetchCount>>
       ELSE IF loadingPromise.state # Null
       THEN /\ calls' = Append(calls, [phase |-> LoadPhase, via |-> "promise", fetched |-> FALSE,
                                       state |-> "pending", value |-> Null])
            /\ UNCHANGED <<courseData, loadingPromise, chain, fetchCount>>
       ELSE /\ fetchCount' = fetchCount + 1
            /\ chain' = [stage |-> "inflight", value |-> Null]
            /\ loadingPromise' = [state |-> "pending", value |-> Null]
            /\ calls' = Append(calls, [phase |-> LoadPhase, via |-> "promise", fetched |-> TRUE,
                                       state |-> "pending", value |-> Null])
            /\ UNCHANGED courseData

\* fetch() itself rejects (no transport): the two .then handlers are skipped.
FetchRejects ==
    /\ chain.stage = "inflight"
    /\ chain' = [stage |-> "thrown", value |-> "network"]
    /\ UNCHANGED <<courseData, loadingPromise, fetchCount, calls>>

\* First .then (lines 26-31): a non-success response throws, a success one
\* starts response.json().
ResponseArrives(ok) ==
    /\ chain.stage = "inflight"
    /\ chain' = IF ok THEN [stage |-> "parsing", value |-> Null]
                      ELSE [stage |-> "thrown", value |-> "http"]
    /\ UNCHANGED <<courseData, loadingPromise, fetchCount, calls>>

\* response.json() rejects: the second .then handler is skipped.
JsonRejects ==
    /\ chain.stage = "parsing"
    /\ chain' = [stage |-> "thrown", value |-> "parse"]
    /\ UNCHANGED <<courseData, loadingPromise, fetchCount, calls>>

\* Second .then (lines 32-36): store the data and pass it on.
JsonResolves(data) ==
    /\ chain.stage = "parsing"
    /\ courseData' = data
    /\ chain' = [stage |-> "stored", value |-> data]
    /\ UNCHANGED <<loadingPromise, fetchCount, calls>>

\* A plausible bug: the handler forgets the memoized promise so that a later
\* call can try again.
CatchRethrowsAndForgets ==
    /\ chain.stage = "thrown"
    /\ loadingPromise' = NoPromise
    /\ chain' = [stage |-> "settled", value |-> chain.value]
    /\ UNCHANGED <<courseData, fetchCount, calls>>

\* .catch (lines 37-40): log and rethrow; the chain's promise is rejected and
\* stays in this.loadingPromise.
CatchRethrows ==
    /\ chain.stage = "thrown"
    /\ loadingPromise' = [state |-> "rejected", value |-> chain.value]
    /\ chain' = [stage |-> "settled", value |-> chain.value]
    /\ UNCHANGED <<courseData, fetchCount, calls>>

\* The value of the second .then passes the .catch: the chain's promise is fulfilled.
ChainFulfils ==
    /\ chain.stage = "stored"
    /\ loadingPromise' = [state |-> "fulfilled", value |-> chain.value]
    /\ chain' = [stage |-> "settled", value |-> chain.value]
    /\ UNCHANGED <<courseData, fetchCount, calls>>

\* The promise an async load() call returned follows the promise it returned
\* from its body: it settles as this.loadingPromise did.
CallSettles(i) ==
    /\ i \in 1..Len(calls)
    /\ calls[i].state = "pending"
    /\ loadingPromise.state \in {"fulfilled", "rejected"}
    /\ calls' = [calls EXCEPT ![i].state = loadingPromise.state,
                              ![i].value = loadingPromise.value]
    /\ UNCHANGED <<courseData, loadingPromise, chain, fetchCount>>

NextLoad ==
    \/ Load /\ UNCHANGED otherThanLoad
    \/ FetchRejects /\ UNCHANGED otherThanLoad
    \/ \E ok \in BOOLEAN : ResponseArrives(ok) /\ UNCHANGED otherThanLoad
    \/ JsonRejects /\ UNCHANGED otherThanLoad
    \/ \E data \in JsonValues : JsonResolves(data) /\ UNCHANGED otherThanLoad
    \/ CatchRethrows /\ UNCHANGED otherThanLoad
    \/ ChainFulfils /\ UNCHANGED otherThanLoad
    \/ \E i \in 1..MaxCalls : CallSettles(i) /\ UNCHANGED otherThanLoad

InitLoad == LoadInit /\ FlatIdle /\ SearchIdle /\ MapIdle /\ AppIdle /\ UiIdle /\ RenderIdle /\ StartIdle /\ NavIdle /\ ToolIdle

SpecLoad == InitLoad /\ [][NextLoad]_vars

(***************************************************************************)
(* Course documents for getFlattenedContent (content-data.js:280-336)      *)
(*                                                                         *)
(* A document is [parts, chapters]; a part is [part, chapters] (its number *)
(* and its list of chapter numbers), a chapter is [chapter, keyTakeaways]. *)
(* An absent optional list is the empty list: `?.` and `|| []` take the    *)
(* same branch for both.                                                   *)
(***************************************************************************)

Min(a, b) == IF a <= b THEN a ELSE b

\* The set of sequences over S of length at most n.
SeqsUpTo(S, n) == UNION {[1..k -> S] : k \in 0..n}

IsInjective(s) == \A i, j \in 1..Len(s) : s[i] = s[j] => i = j

ChapterNumbers == 1..MaxChapters
PartNumbers == {1, 2}

\* keyTakeaways lists: none, three (the spec's example), more than the cap.
\* A takeaway is a string; only its position matters to the flattening.
TakeawayLists == {[i \in 1..n |-> i] : n \in {0, 3, MaxTakeaways}}

\* The raw chapter lists: distinct chapter numbers, in any order.
ChapterLists ==
    {s \in SeqsUpTo([chapter : ChapterNumbers, keyTakeaways : TakeawayLists], MaxChapters) :
        IsInjective([i \in 1..Len(s) |-> s[i].chapter])}

\* The part lists: distinct part numbers in any order, each part with up to
\* two chapter references, which may repeat, be shared or resolve to nothing.
PartLists ==
    {s \in SeqsUpTo([part : PartNumbers, chapters : SeqsUpTo(ChapterNumbers, 2)], 2) :
        IsInjective([i \in 1..Len(s) |-> s[i].part])}

FlatDocs == [parts : PartLists, chapters : ChapterLists]

(***************************************************************************)
(* ContentData accessors (content-data.js:66-89)                           *)
(***************************************************************************)

\* this.courseData before load() has succeeded.
NoCourseData == [null |-> TRUE]

\* What `this.courseData?.` lets through.
HasData(data) == "chapters" \in DOMAIN data

\* Array.prototype.find: the index of the first element satisfying Test, 0 if none.
FindIndex(s, Test(_)) ==
    LET hits == {i \in 1..Len(s) : Test(s[i])}
    IN  IF hits = {} THEN 0 ELSE CHOOSE i \in hits : \A j \in hits : i <= j

\* getChapter(chapterNum): a list holding the chapter, empty for null.
getChapter(data, chapterNum) ==
    IF ~HasData(data) THEN <<>>
    ELSE LET IsIt(ch) == ch.chapter = chapterNum
             i == FindIndex(data.chapters, IsIt)
         IN  IF i = 0 THEN <<>> ELSE <<data.chapters[i]>>

\* A plausible bug: an unknown number yields the first part.
getPartOrFirst(data, partNum) ==
    IF ~HasData(data) THEN <<>>
    ELSE LET IsIt(p) == p.part = partNum
             i == FindIndex(data.parts, IsIt)
         IN  IF data.parts = <<>> THEN <<>>
             ELSE IF i = 0 THEN <<data.parts[1]>> ELSE <<data.parts[i]>>

\* getPart(partNum): a list holding the part, empty for null.
getPart(data, partNum) ==
    IF ~HasData(data) THEN <<>>
    ELSE LET IsIt(p) == p.part = partNum
             i == FindIndex(data.parts, IsIt)
         IN  IF i = 0 THEN <<>> ELSE <<data.parts[i]>>

\* s.map(F) with the lists F returns concatenated, in the order of s.
FlatMap(s, F(_)) ==
    LET upTo[i \in 0..Len(s)] == IF i = 0 THEN <<>> ELSE upTo[i - 1] \o F(s[i])
    IN  upTo[Len(s)]

\* A plausible bug: the part's chapters taken from the raw chapter list, in its order.
getChaptersByPartRawOrder(data, partNum) ==
    LET part == getPart(data, partNum)
    IN  IF part = <<>> THEN <<>>
        ELSE LET wanted == {part[1].chapters[i] : i \in 1..Len(part[1].chapters)}
             IN  SelectSeq(data.chapters, LAMBDA ch : ch.chapter \in wanted)

\* getChaptersByPart(partNum): part.chapters.map(getChapter).filter(Boolean).
getChaptersByPart(data, partNum) ==
    LET part == getPart(data, partNum)
    IN  IF part = <<>> THEN <<>>
        ELSE LET Resolve(chNum) == getChapter(data, chNum)
             IN  FlatMap(part[1].chapters, Resolve)

(***************************************************************************)
(* ContentData.getFlattenedContent (content-data.js:280-336)               *)
(*                                                                         *)
(* An id is the tuple of the template string's pieces: <<"root">>,         *)
(* <<"part", n>>, <<"chapter", n>>, <<"chapter", n, "takeaway", i>>.       *)
(***************************************************************************)

TakeawayCap == 5

NoParent == <<>>
RootId == <<"root">>
PartId(n) == <<"part", n>>
ChapterId(n) == <<"chapter", n>>
TakeawayId(chapterId, index) == chapterId \o <<"takeaway", index>>

\* keyTakeaways.slice(0, 5)
Slice5(s) == SubSeq(s, 1, Min(TakeawayCap, Len(s)))

\* A plausible bug: the cap applied one too late, slice(0, 6).
TakeawayItemsOffByOne(chapter, chapterId) ==
    [i \in 1..Min(TakeawayCap + 1, Len(chapter.keyTakeaways)) |->
        [id |-> TakeawayId(chapterId, i - 1), type |-> "takeaway", level |-> 3,
         parent |-> chapterId]]

\* Lines 322-331: one item per takeaway of the first five, index from 0.
TakeawayItems(chapter, chapterId) ==
    [i \in 1..Len(Slice5(chapter.keyTakeaways)) |->
        [id |-> TakeawayId(chapterId, i - 1), type |-> "takeaway", level |-> 3,
         parent |-> chapterId]]

\* A plausible bug: the chapter's item pushed after its takeaways.
ChapterItemsLate(chapter, partId) ==
    LET chapterId == ChapterId(chapter.chapter)
    IN  TakeawayItems(chapter, chapterId)
        \o <<[id |-> chapterId, type |-> "chapter", level |-> 2, parent |-> partId,
              chapterNumber |-> chapter.chapter, data |-> chapter]>>

\* Lines 308-332: the chapter's item, then its takeaway items.  The item
\* holds the chapter's number as chapterNumber and the chapter as data.
ChapterItems(chapter, partId) ==
    LET chapterId == ChapterId(chapter.chapter)
    IN  <<[id |-> chapterId, type |-> "chapter", level |-> 2, parent |-> partId,
           chapterNumber |-> chapter.chapter, data |-> chapter]>>
        \o TakeawayItems(chapter, chapterId)

\* Lines 293-333: the part's item, then the items of its chapters.
PartItems(data, part) ==
    LET partId == PartId(part.part)
        OfChapter(chapter) == ChapterItems(chapter, partId)
    IN  <<[id |-> partId, type |-> "part", level |-> 1, parent |-> RootId,
           partNumber |-> part.part]>>
        \o FlatMap(getChaptersByPart(data, part.part), OfChapter)

getFlattenedContent(data) ==
    LET OfPart(part) == PartItems(data, part)
    IN  <<[id |-> RootId, type |-> "root", level |-> 0, parent |-> NoParent]>>
        \o FlatMap(data.parts, OfPart)

(***************************************************************************)
(* Callers of getFlattenedContent: each call's result is kept, with the    *)
(* one before it.                                                          *)
(***************************************************************************)

FlatInit == \E data \in FlatDocs : Loaded(data)

CallGetFlattenedContent ==
    /\ items' = getFlattenedContent(courseData)
    /\ prevItems' = items

NextFlat == CallGetFlattenedContent /\ UNCHANGED otherThanFlat

InitFlat == FlatInit /\ FlatIdle /\ SearchIdle /\ MapIdle /\ AppIdle /\ UiIdle /\ RenderIdle /\ StartIdle /\ NavIdle /\ ToolIdle

SpecFlat == InitFlat /\ [][NextFlat]_vars


(***************************************************************************)
(* Strings: a string is the sequence of its characters.                    *)
(***************************************************************************)

Alphabet == {"a", "A", "b"}

\* String.prototype.toLowerCase, character by character.
toLowerCase(str) == [i \in 1..Len(str) |-> IF str[i] = "A" THEN "a" ELSE str[i]]

\* String.prototype.indexOf: the first position (from 0) of sub in str, -1 if none.
indexOf(str, sub) ==
    LET at == {i \in 0..(Len(str) - Len(sub)) : SubSeq(str, i + 1, i + Len(sub)) = sub}
    IN  IF at = {} THEN -1 ELSE CHOOSE i \in at : \A j \in at : i <= j

\* String.prototype.includes
includes(str, sub) == indexOf(str, sub) # -1

\* String.prototype.substring(from, to), positions from 0.
substring(str, from, to) == SubSeq(str, from + 1, to)

Max(a, b) == IF a >= b THEN a ELSE b

Ellipsis == <<".", ".", ".">>

SnippetNoMatchLen == 150
SnippetBefore == 60
SnippetAfter == 90

\* A plausible bug: the window starts before the match only when 60
\* characters precede it.
getContextSnippetLateStart(text, q) ==
    LET index == indexOf(toLowerCase(text), q)
        start == IF index > SnippetBefore THEN index - SnippetBefore ELSE index
        end == Min(Len(text), index + Len(q) + SnippetAfter)
    IN  IF index = -1
        THEN substring(text, 0, Min(SnippetNoMatchLen, Len(text))) \o Ellipsis
        ELSE (IF start > 0 THEN Ellipsis ELSE <<>>)
             \o substring(text, start, end)
             \o (IF end < Len(text) THEN Ellipsis ELSE <<>>)

\* getContextSnippet(text, query) (content-data.js:205-219)
getContextSnippet(text, q) ==
    LET index == indexOf(toLowerCase(text), q)
        start == Max(0, index - SnippetBefore)
        end == Min(Len(text), index + Len(q) + SnippetAfter)
    IN  IF index = -1
        THEN substring(text, 0, Min(SnippetNoMatchLen, Len(text))) \o Ellipsis
        ELSE (IF start > 0 THEN Ellipsis ELSE <<>>)
             \o substring(text, start, end)
             \o (IF end < Len(text) THEN Ellipsis ELSE <<>>)

(***************************************************************************)
(* Course documents for search (content-data.js:96-197)                    *)
(*                                                                         *)
(* Two chapters; the first has an overview, two key takeaways and a        *)
(* section tree three levels deep with a concept on the first two levels,  *)
(* the second has a title only.  Eleven of the texts vary.  An absent      *)
(* optional string is the empty string, an absent list the empty list:     *)
(* `?.` makes both fail every test for a non-empty query.                  *)
(***************************************************************************)

Texts == {<<"A", "b">>, <<"b", "a">>}

\* The texts of SearchDoc that vary.
TextFields == 1..11

SearchDoc(f) ==
    [chapters |-> <<
        [chapter |-> 1, title |-> f[1], overview |-> f[2],
         keyTakeaways |-> <<f[3], <<"b", "A", "b">> >>,
         sections |-> <<
            [title |-> f[4], content |-> f[5],
             concepts |-> <<[name |-> f[6], definition |-> f[7]]>>,
             subsections |-> <<
                [title |-> f[8], content |-> <<>>,
                 concepts |-> <<[name |-> f[9], definition |-> <<>>]>>,
                 subsections |-> <<
                    [title |-> f[10], content |-> <<>>, concepts |-> <<>>,
                     subsections |-> <<>>] >>] >>] >>],
        [chapter |-> 2, title |-> f[11], overview |-> <<>>, keyTakeaways |-> <<>>,
         sections |-> <<>>] >>]

SearchDocs == {SearchDoc(f) : f \in [TextFields -> Texts]}

\* The arguments of search(): null, or a string (the empty one included).
Queries ==
    {[kind |-> "null", text |-> <<>>]}
    \cup [kind : {"string"}, text : SeqsUpTo(Alphabet, MaxQueryLen)]

\* !query
Falsy(q) == q.kind = "null" \/ q.text = <<>>

(***************************************************************************)
(* ContentData.search and searchSections (content-data.js:96-197)          *)
(***************************************************************************)

Result(type, chapter, match, context) ==
    [type |-> type, chapter |-> chapter.chapter, title |-> chapter.title,
     match |-> match, context |-> context]

\* Lines 103-112
TitleResults(chapter, q) ==
    IF includes(toLowerCase(chapter.title), q)
    THEN <<Result("chapter", chapter, chapter.title, chapter.overview)>>
    ELSE <<>>

\* Lines 114-123
OverviewResults(chapter, q) ==
    IF includes(toLowerCase(chapter.overview), q)
    THEN <<Result("overview", chapter, <<"Overview">>, getContextSnippet(chapter.overview, q))>>
    ELSE <<>>

\* Lines 125-136
TakeawayResults(chapter, q) ==
    LET upTo[i \in 0..Len(chapter.keyTakeaways)] ==
            IF i = 0 THEN <<>>
            ELSE upTo[i - 1] \o
                 (IF includes(toLowerCase(chapter.keyTakeaways[i]), q)
                  THEN <<Result("takeaway", chapter, <<"Key Takeaway #", ToString(i)>>,
                                chapter.keyTakeaways[i])>>
                  ELSE <<>>)
    IN  upTo[Len(chapter.keyTakeaways)]

\* A plausible bug: one result for each matching field of a concept.
ConceptResultsPerField(concept, chapter, q) ==
    (IF includes(toLowerCase(concept.name), q)
     THEN <<Result("concept", chapter, concept.name, concept.definition)>> ELSE <<>>)
    \o (IF includes(toLowerCase(concept.definition), q)
        THEN <<Result("concept", chapter, concept.name, concept.definition)>> ELSE <<>>)

\* Lines 179-190: one result for a concept whose name or definition matches.
ConceptResults(concept, chapter, q) ==
    IF \/ includes(toLowerCase(concept.name), q)
       \/ includes(toLowerCase(concept.definition), q)
    THEN <<Result("concept", chapter, concept.name, concept.definition)>>
    ELSE <<>>

\* Lines 156-190: the results of a section's own title, content and concepts.
SectionResults(section, chapter, q) ==
    LET OfConcept(concept) == ConceptResults(concept, chapter, q)
    IN  (IF includes(toLowerCase(section.title), q)
         THEN <<Result("section", chapter, section.title, section.content)>> ELSE <<>>)
        \o (IF includes(toLowerCase(section.content), q)
            THEN <<Result("content", chapter, section.title,
                          getContextSnippet(section.content, q))>> ELSE <<>>)
        \o FlatMap(section.concepts, OfConcept)

\* A plausible bug: the subsections are not searched.
searchSectionsTopLevel(sections, chapter, q) ==
    LET OfSection(section) == SectionResults(section, chapter, q)
    IN  FlatMap(sections, OfSection)

RECURSIVE searchSections(_, _, _)

searchSections(sections, chapter, q) ==
    LET OfSection(section) ==
            SectionResults(section, chapter, q)
            \o (IF Len(section.subsections) > 0
                THEN searchSections(section.subsections, chapter, q)
                ELSE <<>>)
    IN  FlatMap(sections, OfSection)

\* search(query), lines 96-145
search(data, q) ==
    IF Falsy(q) \/ ~HasData(data) THEN <<>>
    ELSE LET lowerQuery == toLowerCase(q.text)
             OfChapter(chapter) ==
                 TitleResults(chapter, lowerQuery)
                 \o OverviewResults(chapter, lowerQuery)
                 \o TakeawayResults(chapter, lowerQuery)
                 \o searchSections(chapter.sections, chapter, lowerQuery)
         IN  FlatMap(data.chapters, OfChapter)

\* search() is called on a loaded store, or before any load().
SearchInit ==
    \/ \E data \in SearchDocs : Loaded(data)
    \/ /\ courseData = NoCourseData
       /\ loadingPromise = NoPromise
       /\ chain = [stage |-> "none", value |-> Null]
       /\ fetchCount = 0
       /\ calls = <<>>

CallSearch ==
    /\ results' = search(courseData, query)
    /\ searched' = TRUE
    /\ UNCHANGED query

NextSearch == CallSearch /\ UNCHANGED otherThanSearch

InitSearch ==
    /\ SearchInit
    /\ FlatIdle
    /\ MapIdle
    /\ AppIdle
    /\ UiIdle
    /\ RenderIdle /\ StartIdle /\ NavIdle /\ ToolIdle
    /\ query \in Queries
    /\ searched = FALSE
    /\ results = <<>>

SpecSearch == InitSearch /\ [][NextSearch]_vars


(***************************************************************************)
(* MindMap: the force-directed variant (mindmap.js:6-651), the simple      *)
(* vertical variant (mindmap.js:661-1088) and the D3 tree variant (the     *)
(* second MindMap class of the vis.js/D3 tree file, lines 458-851).        *)
(***************************************************************************)

ExpandedVariants == {"force", "vertical"}
Variants == ExpandedVariants \cup {"tree"}

\* The documents the maps are built from: the spec's example, a document
\* with two parts of one chapter each, and a document without parts.
TwoPartDoc ==
    [parts |-> <<[part |-> 1, chapters |-> <<2>>], [part |-> 2, chapters |-> <<1>>]>>,
     chapters |-> <<[chapter |-> 1, keyTakeaways |-> <<1, 2, 3>>],
                    [chapter |-> 2, keyTakeaways |-> <<1, 2, 3>>]>>]

EmptyDoc == [parts |-> <<>>, chapters |-> <<>>]

MapDocs ==
    { [parts |-> <<[part |-> 1, chapters |-> <<1, 2>>]>>,
       chapters |-> <<[chapter |-> 1, keyTakeaways |-> <<1, 2, 3>>],
                      [chapter |-> 2, keyTakeaways |-> <<>>]>>],
      TwoPartDoc, EmptyDoc }

\* allItems.filter(item => item.parent === id), as ids
ChildrenOf(all, id) == SelectSeq(all, LAMBDA item : item.parent = id)

\* allItems.some(child => child.parent === item.id)
HasChildren(all, id) == \E i \in 1..Len(all) : all[i].parent = id

\* A plausible bug: the parts are shown whether or not the root is expanded.
IsVisibleItemPartsAlways(item, expanded) ==
    item.level <= 1 \/ item.parent \in expanded

\* The filter of updateGraphData (mindmap.js:153-156) and getVisibleNodes
\* (mindmap.js:755-758).
IsVisibleItem(item, expanded) ==
    item.id = RootId \/ item.parent \in expanded

\* updateGraphData (mindmap.js:151-178) and render -> getVisibleNodes,
\* calculatePositions (mindmap.js:754-797): the data of the rendered nodes.
VisibleNodes(all, expanded) ==
    LET shown == SelectSeq(all, LAMBDA item : IsVisibleItem(item, expanded))
    IN  [i \in 1..Len(shown) |->
            [id |-> shown[i].id,
             hasChildren |-> HasChildren(all, shown[i].id),
             isExpanded |-> shown[i].id \in expanded,
             data |-> shown[i]]]

\* A plausible bug: the map starts with nothing expanded.
InitialExpandedNodesEmpty == {}

\* new Set(['root']) (mindmap.js:14, 667)
InitialExpandedNodes == {RootId}

\* A plausible bug: only the node itself is removed.
collapseNodeShallow(all, expanded, nodeId) == expanded \ {nodeId}

RECURSIVE removeDescendants(_, _, _)

\* removeDescendants (mindmap.js:566-570, 945-949): delete id, then recurse
\* into the items whose parent is id.
removeDescendants(all, expanded, id) ==
    LET children == ChildrenOf(all, id)
        after[i \in 0..Len(children)] ==
            IF i = 0 THEN expanded \ {id}
            ELSE removeDescendants(all, after[i - 1], children[i].id)
    IN  after[Len(children)]

\* collapseNode (mindmap.js:565-575, 944-952): the new expandedNodes.
collapseNode(all, expanded, nodeId) == removeDescendants(all, expanded, nodeId)

\* expandNode (mindmap.js:556-560) and expandedNodes.add (mindmap.js:930)
expandNode(expanded, nodeId) == expanded \cup {nodeId}

\* buildHierarchy + d3.hierarchy (tree file, 550-583): the children of every
\* node, a leaf having none.
HierarchyChildren(all) ==
    [id \in {all[i].id : i \in 1..Len(all)} |->
        [k \in 1..Len(ChildrenOf(all, id)) |-> ChildrenOf(all, id)[k].id]]

RECURSIVE TreeDescendants(_, _)

\* root.descendants(): the nodes reached from id through d.children.
TreeDescendants(children, id) ==
    {id} \cup UNION {TreeDescendants(children, children[id][k]) : k \in 1..Len(children[id])}

\* render (tree file, 585-632): the nodes bound to the drawn elements.
TreeNodes(all, children, hidden) ==
    LET reached == TreeDescendants(children, RootId)
        shown == SelectSeq(all, LAMBDA item : item.id \in reached)
    IN  [i \in 1..Len(shown) |->
            [id |-> shown[i].id,
             hasChildren |-> children[shown[i].id] # <<>> \/ hidden[shown[i].id] # <<>>,
             isExpanded |-> children[shown[i].id] # <<>>,
             data |-> shown[i]]]

Visible == {nodes[i].id : i \in 1..Len(nodes)}

\* What is expanded: the set of the expandedNodes variants, the nodes with
\* d.children in the tree variant.
Expanded ==
    IF variant = "tree"
    THEN {id \in DOMAIN treeChildren : treeChildren[id] # <<>>}
    ELSE expandedNodes

Snapshot == [expanded |-> Expanded, visible |-> Visible]

\* The constructor: nothing loaded yet.
MapConstructed(v) ==
    /\ variant = v
    /\ allItems = <<>>
    /\ expandedNodes = IF v \in ExpandedVariants THEN InitialExpandedNodes ELSE {}
    /\ nodes = <<>>
    /\ treeChildren = <<>>
    /\ treeHidden = <<>>
    /\ lastClick = NoClick
    /\ prevClick = NoClick
    /\ before = NoSnapshot
    /\ before2 = NoSnapshot
    /\ emitted = <<>>

\* init(courseData): mindmap.js:33-68, 689-707; tree file 487-506.
MapInitialize ==
    /\ allItems = <<>>
    /\ LET all == getFlattenedContent(courseData)
       IN  /\ allItems' = all
           /\ IF variant = "tree"
              THEN /\ treeChildren' = HierarchyChildren(all)
                   /\ treeHidden' = [id \in DOMAIN HierarchyChildren(all) |-> <<>>]
                   /\ nodes' = TreeNodes(all, treeChildren', treeHidden')
              ELSE /\ nodes' = VisibleNodes(all, expandedNodes)
                   /\ UNCHANGED <<treeChildren, treeHidden>>
    /\ UNCHANGED <<variant, expandedNodes, lastClick, prevClick, before, before2, emitted>>

\* Whether obj[name] is truthy.  Every property getFlattenedContent stores
\* is a non-empty string, a positive number or an object, so a property is
\* truthy exactly when the item has it.
TruthyProperty(obj, name) == name \in DOMAIN obj

\* document.dispatchEvent(new CustomEvent(type, {detail}))
CustomEvent(type, detail) == [type |-> type, detail |-> detail]

\* mindmap.js:465-474: mindmap:nodeClick with the item, then
\* loadChapterContent(node.data) (580-585) if node.data.chapter is truthy.
DispatchForce(node) ==
    <<CustomEvent("mindmap:nodeClick", [node |-> node.data])>>
    \o IF TruthyProperty(node.data, "chapter")
       THEN <<CustomEvent("content:loadChapter", [chapter |-> node.data])>>
       ELSE <<>>

\* mindmap.js:935-941 and tree file 726-732: content:loadChapter if
\* node.chapter (d.data.chapter) is truthy; the node is the item spread
\* into a new object, so it has the item's properties.
DispatchIfChapter(node) ==
    IF TruthyProperty(node.data, "chapter")
    THEN <<CustomEvent("content:loadChapter", [chapter |-> node.data])>>
    ELSE <<>>

\* The history kept for the claims: the click and the state it found.
Record(node, op) ==
    /\ lastClick' = [node |-> node.id, op |-> op]
    /\ prevClick' = lastClick
    /\ before' = Snapshot
    /\ before2' = before

\* handleNodeClick of the force-directed variant (mindmap.js:452-475): the
\* node is the datum of the clicked element, with the hasChildren and
\* isExpanded that updateGraphData gave it.
handleNodeClickForce(node) ==
    /\ variant = "force"
    /\ IF node.hasChildren
       THEN /\ expandedNodes' = IF node.isExpanded
                                THEN collapseNode(allItems, expandedNodes, node.id)
                                ELSE expandNode(expandedNodes, node.id)
            /\ nodes' = VisibleNodes(allItems, expandedNodes')
            /\ Record(node, IF node.isExpanded THEN "collapse" ELSE "expand")
       ELSE /\ UNCHANGED <<expandedNodes, nodes>>
            /\ Record(node, "none")
    /\ emitted' = DispatchForce(node)
    /\ UNCHANGED <<variant, allItems, treeChildren, treeHidden>>

\* handleNodeClick of the simple vertical variant (mindmap.js:923-942)
handleNodeClickVertical(node) ==
    /\ variant = "vertical"
    /\ IF node.hasChildren
       THEN /\ expandedNodes' = IF node.id \in expandedNodes
                                THEN collapseNode(allItems, expandedNodes, node.id)
                                ELSE expandNode(expandedNodes, node.id)
            /\ nodes' = VisibleNodes(allItems, expandedNodes')
            /\ Record(node, IF node.id \in expandedNodes THEN "collapse" ELSE "expand")
       ELSE /\ UNCHANGED <<expandedNodes, nodes>>
            /\ Record(node, "none")
    /\ emitted' = DispatchIfChapter(node)
    /\ UNCHANGED <<variant, allItems, treeChildren, treeHidden>>

\* handleNodeClick of the D3 tree variant (tree file, 712-733): d.children
\* and d._children swap, then tree(root) and render().
handleNodeClickTree(node) ==
    LET d == node.id
    IN  /\ variant = "tree"
        /\ IF treeChildren[d] # <<>>
           THEN /\ treeHidden' = [treeHidden EXCEPT ![d] = treeChildren[d]]
                /\ treeChildren' = [treeChildren EXCEPT ![d] = <<>>]
                /\ Record(node, "collapse")
           ELSE IF treeHidden[d] # <<>>
           THEN /\ treeChildren' = [treeChildren EXCEPT ![d] = treeHidden[d]]
                /\ treeHidden' = [treeHidden EXCEPT ![d] = <<>>]
                /\ Record(node, "expand")
           ELSE /\ UNCHANGED <<treeChildren, treeHidden>>
                /\ Record(node, "none")
        /\ nodes' = TreeNodes(allItems, treeChildren', treeHidden')
        /\ emitted' = DispatchIfChapter(node)
        /\ UNCHANGED <<variant, allItems, expandedNodes>>

\* The page holds one MindMap class, built on the loaded store.
InitMap ==
    /\ \E data \in MapDocs : Loaded(data)
    /\ \E v \in Variants : MapConstructed(v)
    /\ FlatIdle
    /\ SearchIdle
    /\ AppIdle
    /\ UiIdle
    /\ RenderIdle /\ StartIdle /\ NavIdle /\ ToolIdle

\* A click reaches a rendered node.
NextMap ==
    \/ MapInitialize /\ UNCHANGED otherThanMap
    \/ \E i \in 1..Len(nodes) : handleNodeClickForce(nodes[i]) /\ UNCHANGED otherThanMap
    \/ \E i \in 1..Len(nodes) : handleNodeClickVertical(nodes[i]) /\ UNCHANGED otherThanMap
    \/ \E i \in 1..Len(nodes) : handleNodeClickTree(nodes[i]) /\ UNCHANGED otherThanMap

SpecMap == InitMap /\ [][NextMap]_vars


(***************************************************************************)
(* App: the class with the three view modes and the bookmarks (App file,   *)
(* lines 6-519) and the class of main.js with the quick guide (6-262).     *)
(* localStorage strings are sequences of tokens, a bookmark is the object  *)
(* with its chapter number.                                                *)
(***************************************************************************)

MaxBookmarks == 2

Views == {"mindmap", "content", "both"}
Widths == {Breakpoint - 1, Breakpoint, Breakpoint + 256}

BookmarkChapters == 1..2
Bookmark(n) == [chapter |-> n]
BookmarkLists == {[i \in DOMAIN l |-> Bookmark(l[i])] : l \in SeqsUpTo(BookmarkChapters, MaxBookmarks)}

\* The token a number is written as, and back.
Digit(n) == ToString(n)
IsDigit(tok) == \E n \in BookmarkChapters : Digit(n) = tok
NumberOf(tok) == CHOOSE n \in BookmarkChapters : Digit(n) = tok

\* JSON.stringify(this.bookmarks): "[", the items separated by ",", "]".
JSONstringify(list) ==
    LET upTo[i \in 0..Len(list)] ==
            IF i = 0 THEN <<"[">>
            ELSE upTo[i - 1] \o (IF i > 1 THEN <<",">> ELSE <<>>) \o <<Digit(list[i].chapter)>>
    IN  upTo[Len(list)] \o <<"]">>

\* Whether JSON.parse accepts the text: an array of numbers.
IsJSON(text) ==
    /\ Len(text) >= 2
    /\ text[1] = "["
    /\ text[Len(text)] = "]"
    /\ LET inner == SubSeq(text, 2, Len(text) - 1)
       IN  \/ inner = <<>>
           \/ /\ Len(inner) % 2 = 1
              /\ \A i \in 1..Len(inner) :
                    IF i % 2 = 1 THEN IsDigit(inner[i]) ELSE inner[i] = ","

\* JSON.parse(text) of a text it accepts.
JSONparse(text) ==
    LET inner == SubSeq(text, 2, Len(text) - 1)
    IN  [i \in 1..((Len(inner) + 1) \div 2) |-> Bookmark(NumberOf(inner[2 * i - 1]))]

\* Texts JSON.parse throws a SyntaxError on, and the empty string.
MalformedTexts == {<<>>, <<"[", "1">>, <<"x">>}

BookmarkEntries ==
    {Absent} \cup {Entry(JSONstringify(l)) : l \in BookmarkLists}
             \cup {Entry(t) : t \in MalformedTexts}

VisitedEntries == {Absent, Entry(<<"true">>), Entry(<<>>), Entry(<<"x">>)}

\* The App constructor (App file 7-43; main.js 7-41) and the storage it
\* will find.
AppConstructed ==
    /\ appClass \in {"views", "guide"}
    /\ appPhase = "constructed"
    /\ listeners = FALSE
    /\ viewSet = FALSE
    /\ currentView = IF appClass = "views" THEN "mindmap" ELSE "none"
    /\ innerWidth \in Widths
    /\ bookmarks = <<>>
    /\ sidebarHidden = TRUE
    /\ \E b \in BookmarkEntries, v \in VisitedEntries :
          storage = [key \in {"ob_bookmarks", "ob_visited"} |->
                        IF key = "ob_bookmarks"
                        THEN (IF appClass = "views" THEN b ELSE Absent)
                        ELSE (IF appClass = "guide" THEN v ELSE Absent)]
    /\ storageReads = 0
    /\ quickGuide = "untouched"
    /\ lastEvent = NoEvent
    /\ prevEvent = NoEvent

\* The event kept for the claims, with the view and the entry it found.
Note(kind, width) ==
    /\ lastEvent' = [kind |-> kind, view |-> currentView, width |-> width,
                     entry |-> storage["ob_bookmarks"]]
    /\ prevEvent' = lastEvent

\* A truthy string: any but the empty one; null is falsy.
TruthyEntry(e) == e.present /\ e.text # <<>>

\* loadBookmarks (App file 397-402): what this.bookmarks becomes, or that
\* JSON.parse threw.
loadBookmarks(stored, current) ==
    IF ~TruthyEntry(stored) THEN [threw |-> FALSE, bookmarks |-> current]
    ELSE IF IsJSON(stored.text) THEN [threw |-> FALSE, bookmarks |-> JSONparse(stored.text)]
    ELSE [threw |-> TRUE, bookmarks |-> current]

\* init() of the class with the views (App file 48-83), the store loaded
\* and the modules initialized: loadBookmarks, attachEventListeners,
\* setView('mindmap'); the catch shows the error pane.
AppInitViews ==
    /\ appClass = "views"
    /\ appPhase = "constructed"
    /\ LET loaded == loadBookmarks(storage["ob_bookmarks"], bookmarks)
       IN  /\ storageReads' = storageReads + 1
           /\ bookmarks' = loaded.bookmarks
           /\ IF loaded.threw
              THEN /\ appPhase' = "error"
                   /\ UNCHANGED <<listeners, viewSet, currentView>>
              ELSE /\ appPhase' = "ready"
                   /\ listeners' = TRUE
                   /\ viewSet' = TRUE
                   /\ currentView' = "mindmap"
    /\ Note("init", innerWidth)
    /\ UNCHANGED <<appClass, innerWidth, sidebarHidden, storage, quickGuide>>

\* init() of main.js (43-71): attachEventListeners, then checkFirstVisit
\* (151-159), the quick guide being on the page.
AppInitGuide ==
    /\ appClass = "guide"
    /\ appPhase = "constructed"
    /\ listeners' = TRUE
    /\ IF ~TruthyEntry(storage["ob_visited"])
       THEN /\ quickGuide' = "shown"
            /\ storage' = [storage EXCEPT !["ob_visited"] = Entry(<<"true">>)]
       ELSE /\ quickGuide' = "hidden"
            /\ UNCHANGED storage
    /\ appPhase' = "ready"
    /\ Note("init", innerWidth)
    /\ UNCHANGED <<appClass, viewSet, currentView, innerWidth, bookmarks,
                   sidebarHidden, storageReads>>

\* A click on one of the three view buttons: setView(view) (145-179).
ClickViewButton(view) ==
    /\ appClass = "views"
    /\ listeners
    /\ currentView' = view
    /\ viewSet' = TRUE
    /\ Note("setView", innerWidth)
    /\ UNCHANGED <<appClass, appPhase, listeners, innerWidth, bookmarks,
                   sidebarHidden, storage, storageReads, quickGuide>>

\* loadChapterContent (185-189), loadSectionContent (283-287) and
\* loadTakeawayContent (343-347) begin alike: from the mindmap-only view they
\* go to the split view.
viewForContent(view) == IF view = "mindmap" THEN "both" ELSE view

\* A content:loadChapter, content:loadSection or content:loadTakeaway event
\* reaches the listeners of lines 122-132.
ContentSelected ==
    /\ appClass = "views"
    /\ listeners
    /\ currentView' = viewForContent(currentView)
    /\ viewSet' = TRUE
    /\ Note("content", innerWidth)
    /\ UNCHANGED <<appClass, appPhase, listeners, innerWidth, bookmarks,
                   sidebarHidden, storage, storageReads, quickGuide>>

\* A plausible bug: a wide viewport brings the split view back.
handleResizeRestores(view, width) ==
    IF width < Breakpoint /\ view = "both" THEN "content"
    ELSE IF width >= Breakpoint /\ view = "content" THEN "both"
    ELSE view

\* handleResize (App file 496-501): the view it leaves.
handleResize(view, width) ==
    IF width < Breakpoint /\ view = "both" THEN "content" ELSE view

\* The window is resized to width; the listener, if attached, runs
\* handleResize.
Resize(width) ==
    /\ appClass = "views"
    /\ innerWidth' = width
    /\ IF listeners
       THEN /\ currentView' = handleResize(currentView, width)
            /\ viewSet' = (viewSet \/ (width < Breakpoint /\ currentView = "both"))
       ELSE UNCHANGED <<currentView, viewSet>>
    /\ Note(IF listeners THEN "resize" ELSE "unheard", width)
    /\ UNCHANGED <<appClass, appPhase, listeners, bookmarks, sidebarHidden,
                   storage, storageReads, quickGuide>>

\* toggleBookmarksSidebar (382-385): toggle 'hidden', renderBookmarks.
ToggleBookmarksSidebar ==
    /\ appClass = "views"
    /\ listeners
    /\ sidebarHidden' = ~sidebarHidden
    /\ Note("toggleSidebar", innerWidth)
    /\ UNCHANGED <<appClass, appPhase, listeners, viewSet, currentView, innerWidth,
                   bookmarks, storage, storageReads, quickGuide>>

\* list.splice(index, 1), index from 0
Splice(list, index) ==
    [i \in 1..(Len(list) - 1) |-> IF i <= index THEN list[i] ELSE list[i + 1]]

\* A plausible bug: the list is changed but not saved.
saveBookmarksLater(store, list) == store

\* saveBookmarks (407-409): the storage after setItem.
saveBookmarks(store, list) ==
    [store EXCEPT !["ob_bookmarks"] = Entry(JSONstringify(list))]

\* A click on the remove button of the rendered bookmark at index:
\* removeBookmark(index) (462-466).
RemoveBookmark(index) ==
    /\ appClass = "views"
    /\ listeners
    /\ ~sidebarHidden
    /\ index \in 0..(Len(bookmarks) - 1)
    /\ bookmarks' = Splice(bookmarks, index)
    /\ storage' = saveBookmarks(storage, bookmarks')
    /\ Note("removeBookmark", innerWidth)
    /\ UNCHANGED <<appClass, appPhase, listeners, viewSet, currentView, innerWidth,
                   sidebarHidden, storageReads, quickGuide>>

InitApp ==
    /\ Loaded("doc")
    /\ FlatIdle
    /\ SearchIdle
    /\ MapIdle
    /\ UiIdle
    /\ RenderIdle /\ StartIdle /\ NavIdle /\ ToolIdle
    /\ AppConstructed

NextApp ==
    \/ AppInitViews /\ UNCHANGED otherThanApp
    \/ AppInitGuide /\ UNCHANGED otherThanApp
    \/ \E view \in Views : ClickViewButton(view) /\ UNCHANGED otherThanApp
    \/ ContentSelected /\ UNCHANGED otherThanApp
    \/ \E width \in Widths : Resize(width) /\ UNCHANGED otherThanApp
    \/ ToggleBookmarksSidebar /\ UNCHANGED otherThanApp
    \/ \E index \in 0..MaxBookmarks : RemoveBookmark(index) /\ UNCHANGED otherThanApp

SpecApp == InitApp /\ [][NextApp]_vars


(***************************************************************************)
(* Search: the search box with its debounce timer and the results panel    *)
(* (Search file, lines 6-276).  Time is in milliseconds; a due timer's     *)
(* callback runs at its due time or later, as a browser task does.         *)
(***************************************************************************)

MaxInputs == 2
MaxTime == 600

DebounceDelay == 300
MinQueryLength == 2
DisplayCap == 50

TimeSteps == {150, 300}

\* What the search box can hold when an input event arrives.
InputValues ==
    { <<>>, <<" ">>, <<"a">>, <<" ", "a", " ">>, <<"a", "b">>, <<" ", "a", "b", " ">>,
      <<"b", "b">> }

RECURSIVE trimStart(_)

trimStart(str) ==
    IF str # <<>> /\ Head(str) = " " THEN trimStart(Tail(str)) ELSE str

RECURSIVE trimEnd(_)

trimEnd(str) ==
    IF str # <<>> /\ str[Len(str)] = " " THEN trimEnd(SubSeq(str, 1, Len(str) - 1)) ELSE str

\* String.prototype.trim
trim(str) == trimEnd(trimStart(str))

\* The document the search box searches.
UiDoc == SearchDoc([f \in TextFields |-> <<"A", "b">>])

\* A plausible bug: the superseded timer is left pending.
clearTimeoutForgotten(pending, id) == pending

\* clearTimeout(id): the pending timers without the one of that id.
clearTimeout(pending, id) == {t \in pending : t.id # id}

\* The 'input' listener (42-58): trim the value, clear the previous timer
\* if there is one, set the new one.
InputEvent(value) ==
    /\ Len(inputLog) < MaxInputs
    /\ LET q == trim(value)
           kept == IF debounceTimer # 0 THEN clearTimeout(timers, debounceTimer) ELSE timers
       IN  /\ timers' = kept \cup {[id |-> nextTimer, query |-> q, due |-> now + DebounceDelay]}
           /\ debounceTimer' = nextTimer
           /\ nextTimer' = nextTimer + 1
           /\ inputLog' = Append(inputLog, [at |-> now, value |-> value, timer |-> nextTimer])
    /\ lastUi' = "input"
    /\ UNCHANGED <<now, firedLog, resultsHidden, resultsList, lastHide>>

\* results.slice(0, 50)
limitedResults(found) == SubSeq(found, 1, Min(DisplayCap, Len(found)))

\* performSearch (96-104): what the results list shows afterwards, by
\* showNoResults (134-146) or showResults (110-127).
performSearch(data, q) ==
    LET found == search(data, [kind |-> "string", text |-> q])
    IN  IF Len(found) = 0
        THEN [kind |-> "noResults", query |-> q, total |-> 0, shown |-> 0]
        ELSE [kind |-> "results", query |-> q, total |-> Len(found),
              shown |-> Len(limitedResults(found))]

\* A plausible bug: any non-empty query is searched.
ShouldSearchNonEmpty(q) == Len(q) >= 1

\* query.length >= 2 (line 52)
ShouldSearch(q) == Len(q) >= MinQueryLength

\* The callback of a due timer (51-57): search, or hide the results.
TimerFires(t) ==
    /\ t \in timers
    /\ now >= t.due
    /\ timers' = timers \ {t}
    /\ IF ShouldSearch(t.query)
       THEN /\ resultsList' = performSearch(courseData, t.query)
            /\ resultsHidden' = FALSE
       ELSE /\ resultsHidden' = TRUE
            /\ UNCHANGED resultsList
    /\ firedLog' = Append(firedLog, [at |-> now, query |-> t.query, timer |-> t.id,
                                     searched |-> ShouldSearch(t.query)])
    /\ lastUi' = "fire"
    /\ UNCHANGED <<now, debounceTimer, nextTimer, inputLog, lastHide>>

\* The hide or clear kept for the claims, with the numbers of input events
\* handled and of timer callbacks run before it.
NoteHide(op) ==
    lastHide' = [op |-> op, inputs |-> Len(inputLog), fired |-> Len(firedLog)]

\* hideResults (251-255), from the close button, Escape or a click on the
\* overlay (68-87): all of them act on the open panel.
HideResults ==
    /\ ~resultsHidden
    /\ resultsHidden' = TRUE
    /\ lastUi' = "hide"
    /\ NoteHide("hide")
    /\ UNCHANGED <<now, debounceTimer, timers, nextTimer, inputLog, firedLog, resultsList>>

\* clearSearch (260-264): the timers it leaves pending.  It empties the
\* box, which fires no input event, hides the results and focuses the box;
\* this.debounceTimer is not touched.
clearSearch(pending, timer) == pending

\* A click on the clear button (61-65), with results shown or not.
ClearSearch ==
    /\ timers' = clearSearch(timers, debounceTimer)
    /\ resultsHidden' = TRUE
    /\ lastUi' = "clear"
    /\ NoteHide("clear")
    /\ UNCHANGED <<now, debounceTimer, nextTimer, inputLog, firedLog, resultsList>>

\* Time passes.
TimePasses(ms) ==
    /\ now + ms <= MaxTime
    /\ now' = now + ms
    /\ lastUi' = "time"
    /\ UNCHANGED <<debounceTimer, timers, nextTimer, inputLog, firedLog,
                   resultsHidden, resultsList, lastHide>>

\* Search.init (21-35) on the loaded store.
InitUi ==
    /\ Loaded(UiDoc)
    /\ FlatIdle
    /\ SearchIdle
    /\ MapIdle
    /\ AppIdle
    /\ UiIdle
    /\ RenderIdle /\ StartIdle /\ NavIdle /\ ToolIdle

NextUi ==
    \/ \E value \in InputValues : InputEvent(value) /\ UNCHANGED otherThanUi
    \/ \E t \in timers : TimerFires(t) /\ UNCHANGED otherThanUi
    \/ HideResults /\ UNCHANGED otherThanUi
    \/ ClearSearch /\ UNCHANGED otherThanUi
    \/ \E ms \in TimeSteps : TimePasses(ms) /\ UNCHANGED otherThanUi

SpecUi == InitUi /\ [][NextUi]_vars


(***************************************************************************)
(* Search.escapeHtml and Search.highlightQuery (Search file 207-216,       *)
(* 271-275).  HTML is a sequence of characters; the tags highlightQuery    *)
(* inserts are the tokens "<mark>" and "</mark>".                          *)
(***************************************************************************)

MaxTextLen == 2
MaxPatternLen == 3

\* Letters in both cases, an HTML-special character, and the characters a
\* regular expression reads as a wildcard and as group delimiters.
HtmlAlphabet == {"a", "A", "&", ".", "(", ")"}

\* What innerHTML gives for one character of textContent.
escapeChar(c) ==
    CASE c = "&" -> <<"&", "a", "m", "p", ";">>
      [] c = "<" -> <<"&", "l", "t", ";">>
      [] c = ">" -> <<"&", "g", "t", ";">>
      [] OTHER -> <<c>>

\* escapeHtml (271-275): div.textContent = text; return div.innerHTML
escapeHtml(text) == FlatMap(text, escapeChar)

\* The depth of open groups after each character of a pattern.
GroupDepth(pattern) ==
    LET depth[i \in 0..Len(pattern)] ==
            IF i = 0 THEN 0
            ELSE depth[i - 1] + (CASE pattern[i] = "(" -> 1 [] pattern[i] = ")" -> -1 [] OTHER -> 0)
    IN  depth

\* new RegExp(pattern) throws a SyntaxError unless the groups balance.
RegExpValid(pattern) ==
    /\ \A i \in 1..Len(pattern) : GroupDepth(pattern)[i] >= 0
    /\ GroupDepth(pattern)[Len(pattern)] = 0

\* What a pattern matches character by character: its characters other
\* than the group delimiters.
Atoms(pattern) == SelectSeq(pattern, LAMBDA c : c \notin {"(", ")"})

\* How many atoms the first group holds; the pattern starts with "(".
FirstGroupLen(pattern) ==
    LET close == CHOOSE j \in 2..Len(pattern) :
                    /\ GroupDepth(pattern)[j] = 0
                    /\ \A k \in 1..(j - 1) : GroupDepth(pattern)[k] > 0
    IN  Len(Atoms(SubSeq(pattern, 2, close - 1)))

\* One atom against one character under the flag 'i': "." is any character.
AtomMatches(atom, ch) ==
    atom = "." \/ toLowerCase(<<atom>>) = toLowerCase(<<ch>>)

\* Whether the atoms match str at position p (from 0).
MatchAt(atoms, str, p) ==
    /\ p + Len(atoms) <= Len(str)
    /\ \A i \in 1..Len(atoms) : AtomMatches(atoms[i], str[p + i])

RECURSIVE ReplaceFrom(_, _, _, _)

\* str.replace(regex, '<mark>$1</mark>') with the flag 'g', from position p:
\* the leftmost match is replaced by the first group in tags, the search
\* resumes after the match, an empty match advancing by one character.
ReplaceFrom(str, atoms, group, p) ==
    IF MatchAt(atoms, str, p)
    THEN <<"<mark>">> \o SubSeq(str, p + 1, p + group) \o <<"</mark>">>
         \o (IF Len(atoms) > 0 THEN ReplaceFrom(str, atoms, group, p + Len(atoms))
             ELSE IF p < Len(str) THEN <<str[p + 1]>> \o ReplaceFrom(str, atoms, group, p + 1)
             ELSE <<>>)
    ELSE IF p < Len(str) THEN <<str[p + 1]>> \o ReplaceFrom(str, atoms, group, p + 1)
    ELSE <<>>

\* highlightQuery (207-216): the HTML, or that new RegExp threw.
highlightQuery(text, q) ==
    IF text = <<>> \/ q = <<>> THEN [threw |-> FALSE, html |-> escapeHtml(text)]
    ELSE LET escapedText == escapeHtml(text)
             pattern == <<"(">> \o escapeHtml(q) \o <<")">>
         IN  IF ~RegExpValid(pattern) THEN [threw |-> TRUE, html |-> <<>>]
             ELSE [threw |-> FALSE,
                   html |-> ReplaceFrom(escapedText, Atoms(pattern), FirstGroupLen(pattern), 0)]

HighlightTexts == SeqsUpTo(HtmlAlphabet, MaxTextLen)
HighlightQueries == SeqsUpTo(HtmlAlphabet, MaxPatternLen)

HighlightInit ==
    /\ renderInput \in [op : {"highlight"}, text : HighlightTexts, query : HighlightQueries]
    /\ rendered = NotRendered

CallHighlightQuery ==
    /\ renderInput.op = "highlight"
    /\ ~rendered.done
    /\ LET out == highlightQuery(renderInput.text, renderInput.query)
       IN  rendered' = [done |-> TRUE, threw |-> out.threw, html |-> out.html]
    /\ UNCHANGED renderInput

InitHighlight ==
    /\ Loaded("doc")
    /\ FlatIdle
    /\ SearchIdle
    /\ MapIdle
    /\ AppIdle
    /\ UiIdle
    /\ StartIdle /\ NavIdle /\ ToolIdle
    /\ HighlightInit

NextHighlight == CallHighlightQuery /\ UNCHANGED otherThanRender

SpecHighlight == InitHighlight /\ [][NextHighlight]_vars


(***************************************************************************)
(* Search.showResults and Search.renderSearchResult (Search file 110-127,  *)
(* 153-199).  The markup of a result is kept as the texts put into the     *)
(* template, each as the characters that reach innerHTML.                  *)
(***************************************************************************)

MaxResults == 52

\* typeLabels[result.type] || result.type (163-173)
TypeLabel(type) ==
    CASE type = "chapter" -> "Chapter"
      [] type = "overview" -> "Overview"
      [] type = "takeaway" -> "Key Takeaway"
      [] type = "section" -> "Section"
      [] type = "content" -> "Content"
      [] type = "concept" -> "Concept"
      [] OTHER -> type

\* renderSearchResult (153-199): the texts of the template, or that
\* highlightQuery threw.
renderSearchResult(result, q) ==
    LET highlightedContext == highlightQuery(result.context, q)
    IN  [threw |-> highlightedContext.threw,
         chapter |-> result.chapter,
         type |-> result.type,
         label |-> TypeLabel(result.type),
         title |-> result.title,
         match |-> escapeHtml(result.match),
         context |-> IF result.context # <<>> THEN highlightedContext.html ELSE <<>>]

\* showResults (110-127): the summary and the items set as innerHTML with
\* the panel shown, or nothing if rendering an item threw.
showResults(found, q) ==
    LET limited == limitedResults(found)
        itemsHtml == [i \in 1..Len(limited) |-> renderSearchResult(limited[i], q)]
    IN  IF \E i \in 1..Len(itemsHtml) : itemsHtml[i].threw
        THEN [done |-> TRUE, threw |-> TRUE]
        ELSE [done |-> TRUE, threw |-> FALSE,
              summary |-> [total |-> Len(found), plural |-> Len(found) # 1,
                           query |-> escapeHtml(q), capped |-> Len(found) > DisplayCap],
              items |-> itemsHtml]

\* Texts of the course and queries typed.
ShowTexts == {<<"a">>, <<"<", "a">>, <<"A", "&">>, <<"(", "a">>}
ShowQueries == {<<"a">>, <<"a", "&">>, <<"(", "a">>}

\* Results as search(q) returns them for chapters 1..n: each has a match
\* that contains the query, a chapter title and a context, which may be
\* missing.
ShowResultLists ==
    { [i \in 1..n |-> [type |-> type, chapter |-> i, title |-> t.title,
                       match |-> t.match, context |-> t.context]] :
        n \in 1..MaxResults, type \in {"chapter", "concept"},
        t \in [title : ShowTexts, match : ShowTexts, context : ShowTexts \cup {<<>>}] }

ShowInit ==
    /\ \E found \in ShowResultLists, q \in ShowQueries :
          /\ includes(toLowerCase(found[1].match), toLowerCase(q))
          /\ renderInput = [op |-> "show", results |-> found, query |-> q]
    /\ rendered = NotRendered

CallShowResults ==
    /\ renderInput.op = "show"
    /\ ~rendered.done
    /\ rendered' = showResults(renderInput.results, renderInput.query)
    /\ UNCHANGED renderInput

InitShow ==
    /\ Loaded("doc")
    /\ FlatIdle
    /\ SearchIdle
    /\ MapIdle
    /\ AppIdle
    /\ UiIdle
    /\ StartIdle /\ NavIdle /\ ToolIdle
    /\ ShowInit

NextShow == CallShowResults /\ UNCHANGED otherThanRender

SpecShow == InitShow /\ [][NextShow]_vars


(***************************************************************************)
(* Claims about load()                                                     *)
(***************************************************************************)

\* C1: across any interleaving of load() calls at most one fetch is issued: a
\* call made while the request is in flight fetches nothing and is given the
\* memoized promise (it settles as that promise does), and a call made after
\* the data arrived fetches nothing and yields the stored data.
C1_SingleFetch ==
    /\ fetchCount <= 1
    /\ \A i \in 1..Len(calls) :
        /\ calls[i].fetched => i = 1
        /\ calls[i].phase = "inflight" =>
              /\ calls[i].via = "promise"
              /\ ~calls[i].fetched
              /\ calls[i].state # "pending" =>
                    /\ calls[i].state = loadingPromise.state
                    /\ calls[i].value = loadingPromise.value
        /\ calls[i].phase \in {"cached", "succeeded"} =>
              /\ ~calls[i].fetched
              /\ calls[i].state # "rejected"
              /\ calls[i].state = "fulfilled" => calls[i].value = courseData
        /\ calls[i].phase = "cached" => calls[i].state = "fulfilled"

\* C1 witness: one fetch served a first call, a call made in flight and a call
\* made after the data was stored, all fulfilled with the document.
C1_Witness ==
    /\ fetchCount = 1
    /\ \E i, j \in 1..Len(calls) :
        /\ calls[i].phase = "inflight" /\ calls[i].state = "fulfilled"
        /\ calls[j].phase = "cached" /\ calls[j].value = "doc"

\* The chain failed: a handler threw or a promise of the chain was rejected.
LoadFailed == chain.value \in LoadErrors

\* C2: once the fetch or the parse has failed, courseData stays unset, no call
\* is fulfilled, every settled call is rejected with that error, and no later
\* load() call fetches again.
C2_FailureIsFinal ==
    /\ [](LoadFailed =>
            /\ courseData = Null
            /\ \A i \in 1..Len(calls) :
                /\ calls[i].state # "fulfilled"
                /\ calls[i].state = "rejected" =>
                      /\ loadingPromise.state = "rejected"
                      /\ calls[i].value = chain.value)
    /\ [][LoadFailed =>
            /\ LoadFailed'
            /\ chain'.value = chain.value
            /\ fetchCount' = fetchCount
            /\ courseData' = Null]_vars

\* C2 witness: after a failed parse, the first caller and a caller that came
\* after the failure are both rejected with the parse error, one fetch issued.
C2_Witness ==
    /\ loadingPromise = [state |-> "rejected", value |-> "parse"]
    /\ fetchCount = 1
    /\ \E i, j \in 1..Len(calls) :
        /\ calls[i].phase = "first" /\ calls[i].state = "rejected"
        /\ calls[j].phase = "failed" /\ calls[j].state = "rejected"
        /\ calls[j].value = "parse"

(***************************************************************************)
(* Claims about getFlattenedContent()                                      *)
(***************************************************************************)

Flattened == items # <<>>

\* The positions of data.parts[p].chapters[k] that name chapter number n.
ReferencesTo(data, n) ==
    UNION {{<<p, k>> : k \in {k \in 1..Len(data.parts[p].chapters) :
                                  data.parts[p].chapters[k] = n}} :
           p \in 1..Len(data.parts)}

\* A valid course document: part numbers and chapter numbers identify (the
\* documents drawn have them distinct), and every chapter is referenced by
\* exactly one part, once.  A part may also name chapters that do not exist.
ValidDoc(data) ==
    /\ IsInjective([i \in 1..Len(data.parts) |-> data.parts[i].part])
    /\ IsInjective([i \in 1..Len(data.chapters) |-> data.chapters[i].chapter])
    /\ \A c \in 1..Len(data.chapters) :
          Cardinality(ReferencesTo(data, data.chapters[c].chapter)) = 1

ItemsWhere(Test(_)) == {i \in 1..Len(items) : Test(items[i])}

\* C3: for a valid document the result holds one root, one part node per
\* part, one chapter node per chapter, min(5, takeaways) takeaway nodes per
\* chapter, and nothing else.
C3_FlattenCounts ==
    (Flattened /\ ValidDoc(courseData)) =>
        /\ Cardinality(ItemsWhere(LAMBDA it : it.type = "root")) = 1
        /\ Cardinality(ItemsWhere(LAMBDA it : it.type = "part")) = Len(courseData.parts)
        /\ \A p \in 1..Len(courseData.parts) :
              Cardinality(ItemsWhere(LAMBDA it :
                  it.type = "part" /\ it.id = PartId(courseData.parts[p].part))) = 1
        /\ Cardinality(ItemsWhere(LAMBDA it : it.type = "chapter")) = Len(courseData.chapters)
        /\ \A c \in 1..Len(courseData.chapters) :
              LET ch == courseData.chapters[c]
              IN  /\ Cardinality(ItemsWhere(LAMBDA it :
                          it.type = "chapter" /\ it.id = ChapterId(ch.chapter))) = 1
                  /\ Cardinality(ItemsWhere(LAMBDA it :
                          it.type = "takeaway" /\ it.parent = ChapterId(ch.chapter)))
                        = Min(5, Len(ch.keyTakeaways))
        /\ \A i \in 1..Len(items) :
              /\ items[i].type \in {"root", "part", "chapter", "takeaway"}
              /\ items[i].type = "takeaway" =>
                    \E c \in 1..Len(courseData.chapters) :
                        items[i].parent = ChapterId(courseData.chapters[c].chapter)

\* C3 witness: a valid document with two parts and two chapters, one with
\* three takeaways and one with more than five, has been flattened.
C3_Witness ==
    /\ Flattened
    /\ ValidDoc(courseData)
    /\ Len(courseData.parts) = 2
    /\ \E a, b \in 1..Len(courseData.chapters) :
          /\ Len(courseData.chapters[a].keyTakeaways) = 3
          /\ Len(courseData.chapters[b].keyTakeaways) > 5

\* C4: every non-root node's parent id resolves to a node that comes earlier
\* in the result, of the right type (part -> root, chapter -> a part node,
\* takeaway -> a chapter node); for a valid document it resolves to exactly
\* one node.
C4_ParentResolves ==
    Flattened =>
        \A i \in 1..Len(items) :
            LET it == items[i]
                resolvers == {j \in 1..Len(items) : items[j].id = it.parent}
                ParentType == [part |-> "root", chapter |-> "part", takeaway |-> "chapter"]
            IN  IF it.type = "root"
                THEN it.parent = NoParent
                ELSE /\ \E j \in resolvers : j < i
                     /\ \A j \in resolvers : items[j].type = ParentType[it.type]
                     /\ it.type = "part" => it.parent = RootId
                     /\ ValidDoc(courseData) =>
                           /\ Cardinality(resolvers) = 1
                           /\ i \notin resolvers

\* C4 witness: a flattened valid document in which a part has two chapter
\* nodes and a chapter has takeaway nodes.
C4_Witness ==
    /\ Flattened
    /\ ValidDoc(courseData)
    /\ \E i, j, k \in 1..Len(items) :
          /\ i # j
          /\ items[i].type = "chapter" /\ items[j].type = "chapter"
          /\ items[i].parent = items[j].parent
          /\ items[k].type = "takeaway" /\ items[k].parent = items[j].id

\* The positions of the result's nodes of a type, ascending.
PositionsOf(type) ==
    SelectSeq([i \in 1..Len(items) |-> i], LAMBDA i : items[i].type = type)

IdsOf(s) == [i \in 1..Len(s) |-> s[i].id]

\* The spec's example: Part 1 with Chapter 1 (3 takeaways) and Chapter 2 (none).
ExampleDoc ==
    [parts |-> <<[part |-> 1, chapters |-> <<1, 2>>]>>,
     chapters |-> <<[chapter |-> 1, keyTakeaways |-> <<1, 2, 3>>],
                    [chapter |-> 2, keyTakeaways |-> <<>>]>>]

\* C5: the result is the preorder sequence: the root, then the parts in
\* declared order, each part node followed by the chapters its list names (in
\* the list's order, those that exist), each chapter node immediately followed
\* by its takeaway nodes 0, 1, ...; a repeated call returns the same ids.
C5_FlattenOrder ==
    Flattened =>
        LET parts == courseData.parts
            pp == PositionsOf("part")
            Exists(n) == \E c \in 1..Len(courseData.chapters) :
                            courseData.chapters[c].chapter = n
            TakeawaysOf(n) ==
                LET c == CHOOSE c \in 1..Len(courseData.chapters) :
                            courseData.chapters[c].chapter = n
                IN  Len(courseData.chapters[c].keyTakeaways)
        IN  /\ PositionsOf("root") = <<1>>
            /\ items[1].id = RootId
            /\ Len(items) > 1 => items[2].type = "part"
            /\ Len(pp) = Len(parts)
            /\ \A k \in 1..Len(pp) :
                  LET lo == pp[k]
                      hi == IF k < Len(pp) THEN pp[k + 1] ELSE Len(items) + 1
                      between == SelectSeq(PositionsOf("chapter"),
                                           LAMBDA i : lo < i /\ i < hi)
                  IN  /\ items[lo].id = PartId(parts[k].part)
                      /\ lo < Len(items) => items[lo + 1].type # "takeaway"
                      /\ [i \in 1..Len(between) |-> items[between[i]].id]
                            = [i \in 1..Len(SelectSeq(parts[k].chapters, Exists)) |->
                                  ChapterId(SelectSeq(parts[k].chapters, Exists)[i])]
            /\ \A j \in 1..Len(items) :
                  items[j].type = "chapter" =>
                      LET n == items[j].id[2]
                          m == Min(5, TakeawaysOf(n))
                      IN  /\ j + m <= Len(items)
                          /\ \A t \in 1..m :
                                /\ items[j + t].type = "takeaway"
                                /\ items[j + t].id = <<"chapter", n, "takeaway", t - 1>>
                          /\ j + m < Len(items) => items[j + m + 1].type # "takeaway"
            /\ prevItems # <<>> => IdsOf(prevItems) = IdsOf(items)
            /\ courseData = ExampleDoc =>
                  IdsOf(items) = << <<"root">>, <<"part", 1>>, <<"chapter", 1>>,
                                    <<"chapter", 1, "takeaway", 0>>,
                                    <<"chapter", 1, "takeaway", 1>>,
                                    <<"chapter", 1, "takeaway", 2>>, <<"chapter", 2>> >>

\* C5 witness: flattened twice, a document whose part lists chapter 2 before
\* chapter 1 while the raw chapter list holds chapter 1 first.
C5_Witness ==
    /\ prevItems # <<>>
    /\ Len(courseData.chapters) = 2
    /\ courseData.chapters[1].chapter = 1
    /\ courseData.chapters[2].chapter = 2
    /\ Len(courseData.chapters[2].keyTakeaways) = 3
    /\ \E p \in 1..Len(courseData.parts) : courseData.parts[p].chapters = <<2, 1>>

(***************************************************************************)
(* Claims about search()                                                   *)
(***************************************************************************)

\* q occurs in text, ignoring case.
ContainsIgnoringCase(text, q) ==
    \E i \in 0..(Len(text) - Len(q)) :
        \A k \in 1..Len(q) : toLowerCase(<<text[i + k]>>) = toLowerCase(<<q[k]>>)

\* What a result can stand for: a chapter title, an overview, a takeaway, a
\* section title, a section body, or a concept (its name and its definition).
Slot(chapter, type, match, fields) ==
    [chapter |-> chapter.chapter, type |-> type, match |-> match, fields |-> fields]

RECURSIVE SectionSlots(_, _)

\* The slots of a section tree, in document order, at every depth.
SectionSlots(sections, chapter) ==
    LET OfSection(sec) ==
            << Slot(chapter, "section", sec.title, <<sec.title>>),
               Slot(chapter, "content", sec.title, <<sec.content>>) >>
            \o [c \in 1..Len(sec.concepts) |->
                   Slot(chapter, "concept", sec.concepts[c].name,
                        <<sec.concepts[c].name, sec.concepts[c].definition>>)]
            \o SectionSlots(sec.subsections, chapter)
    IN  FlatMap(sections, OfSection)

ChapterSlots(chapter) ==
    << Slot(chapter, "chapter", chapter.title, <<chapter.title>>),
       Slot(chapter, "overview", <<"Overview">>, <<chapter.overview>>) >>
    \o [t \in 1..Len(chapter.keyTakeaways) |->
           Slot(chapter, "takeaway", <<"Key Takeaway #", ToString(t)>>,
                <<chapter.keyTakeaways[t]>>)]
    \o SectionSlots(chapter.sections, chapter)

\* The fields of a slot that contain the query.
MatchingFields(slot) ==
    {k \in 1..Len(slot.fields) : ContainsIgnoringCase(slot.fields[k], query.text)}

SlotMatches(slot) == MatchingFields(slot) # {}

\* The matching slots of the whole document, in document order.
MatchingSlots == SelectSeq(FlatMap(courseData.chapters, ChapterSlots), SlotMatches)

\* C6: search(q) returns nothing for an empty or null query; for any other
\* query it returns, in document order, a result for each chapter title,
\* overview, key takeaway, section title, section body and concept, at any
\* depth of the section tree, that contains q ignoring case (a concept: in its
\* name or its definition), and no other result.
C6_SearchMatches ==
    searched =>
        IF Falsy(query) \/ ~HasData(courseData)
        THEN results = <<>>
        ELSE LET expected == MatchingSlots
             IN  /\ Len(results) = Len(expected)
                 /\ \A i \in 1..Len(results) :
                       /\ results[i].chapter = expected[i].chapter
                       /\ results[i].type = expected[i].type
                       /\ results[i].match = expected[i].match

\* C6 witness: the query "Ab" was searched in a document whose only texts
\* holding "ab" are the title of the section at depth three ("Ab") and the
\* second takeaway ("bAb"): two results, the section one last.
C6_Witness ==
    /\ searched
    /\ query = [kind |-> "string", text |-> <<"A", "b">>]
    /\ HasData(courseData)
    /\ courseData.chapters[1].sections[1].subsections[1].subsections[1].title = <<"A", "b">>
    /\ courseData.chapters[2].title = <<"b", "a">>
    /\ Len(results) = 2
    /\ results[2].type = "section"

\* The number of results search() returned for a chapter.
ResultsFor(chapterNum) ==
    Cardinality({i \in 1..Len(results) : results[i].chapter = chapterNum})

\* The slots of a chapter, as a set of positions in its slot list.
SlotsMatching(chapter) ==
    LET slots == ChapterSlots(chapter)
    IN  {i \in 1..Len(slots) : SlotMatches(slots[i])}

\* The matching fields of a chapter: <<slot position, field position>>.
FieldsMatching(chapter) ==
    LET slots == ChapterSlots(chapter)
    IN  UNION {{<<i, k>> : k \in MatchingFields(slots[i])} : i \in 1..Len(slots)}

\* C7 as stated: the results of a chapter are as many as its matching
\* fields, a concept's name and definition counted separately.
C7_OnePerField ==
    (searched /\ ~Falsy(query) /\ HasData(courseData)) =>
        \A c \in 1..Len(courseData.chapters) :
            ResultsFor(courseData.chapters[c].chapter)
                = Cardinality(FieldsMatching(courseData.chapters[c]))

\* C7, amended: the results of a chapter are as many as its matching titles,
\* overview, takeaways, section titles, section bodies and concepts, a concept
\* counted once when its name, its definition or both match.
C7_OnePerSlot ==
    (searched /\ ~Falsy(query) /\ HasData(courseData)) =>
        \A c \in 1..Len(courseData.chapters) :
            ResultsFor(courseData.chapters[c].chapter)
                = Cardinality(SlotsMatching(courseData.chapters[c]))

\* C7 witness: a search for "b" in a chapter whose first concept has "b" in
\* both its name and its definition.
C7_Witness ==
    /\ searched
    /\ HasData(courseData)
    /\ query = [kind |-> "string", text |-> <<"b">>]
    /\ LET concept == courseData.chapters[1].sections[1].concepts[1]
       IN  concept.name = <<"A", "b">> /\ concept.definition = <<"b", "a">>
    /\ ResultsFor(1) > 1

(***************************************************************************)
(* Claims about the mind map's expand and collapse                         *)
(***************************************************************************)

AllIds == {allItems[i].id : i \in 1..Len(allItems)}

ChildIds(id) == {allItems[i].id : i \in {k \in 1..Len(allItems) : allItems[k].parent = id}}

RECURSIVE DescendantsOf(_)

\* The transitive descendants of a node, the node itself excluded.
DescendantsOf(id) == ChildIds(id) \cup UNION {DescendantsOf(c) : c \in ChildIds(id)}

\* The items that hang below a proper descendant of n.
BelowDescendants(n) ==
    {allItems[i].id : i \in {k \in 1..Len(allItems) : allItems[k].parent \in DescendantsOf(n)}}

RootCollapsed == lastClick = [node |-> RootId, op |-> "collapse"]

C9_CollapseHidesSubtree ==
    (variant \in ExpandedVariants /\ lastClick.op = "collapse")
        => LET n == lastClick.node
               subtree == {n} \cup DescendantsOf(n)
           IN  /\ subtree \cap expandedNodes = {}
               /\ DescendantsOf(n) \cap Visible = {}
               /\ \A id \in AllIds \ subtree :
                      /\ id \in expandedNodes <=> id \in before.expanded
                      /\ id \in Visible <=> id \in before.visible

C9_Witness ==
    /\ variant \in ExpandedVariants
    /\ courseData = TwoPartDoc
    /\ lastClick = [node |-> PartId(1), op |-> "collapse"]
    /\ ChapterId(2) \in before.expanded
    /\ TakeawayId(ChapterId(2), 1) \in before.visible
    /\ PartId(2) \in expandedNodes
    /\ ChapterId(1) \in Visible

CollapsedThenExpanded ==
    /\ prevClick.op = "collapse"
    /\ lastClick.op = "expand"
    /\ prevClick.node = lastClick.node

\* C10 as stated: collapsing an expanded node n and then re-expanding it
\* (two consecutive clicks on n) yields exactly the visible node set that
\* existed before the collapse, descendants at depth two or more included.
C10_RestoresExactly ==
    CollapsedThenExpanded => Visible = before2.visible

\* C10, amended: collapsing an expanded node n and re-expanding it restores
\* the visible set exactly in the D3 tree variant; in the force-directed
\* and simple vertical variants it restores the visible set except for the
\* nodes below a proper descendant of n, so of n's subtree only n's direct
\* children come back.
C10_RestoresUpToDepthOne ==
    CollapsedThenExpanded
        => Visible = IF variant = "tree"
                     THEN before2.visible
                     ELSE before2.visible \ BelowDescendants(lastClick.node)

C10_Witness ==
    /\ variant \in ExpandedVariants
    /\ CollapsedThenExpanded
    /\ lastClick.node = PartId(1)
    /\ before2.visible \cap BelowDescendants(PartId(1)) # {}
    /\ ChildIds(PartId(1)) \subseteq Visible

(***************************************************************************)
(* Claims about what a click on a mind-map node emits                      *)
(***************************************************************************)

Clicked == lastClick.node # <<>>

ClickedItem == CHOOSE item \in {allItems[i] : i \in 1..Len(allItems)} : item.id = lastClick.node

LoadChapterEvents == SelectSeq(emitted, LAMBDA e : e.type = "content:loadChapter")

\* C11: a click on a mind-map node that has children toggles its expansion
\* and emits no content-selection event; a click on a chapter node without
\* children emits a content:loadChapter event carrying that chapter.
C11_ClickTogglesOrSelects ==
    (variant \in ExpandedVariants /\ Clicked)
        => IF HasChildren(allItems, lastClick.node)
           THEN /\ lastClick.op \in {"collapse", "expand"}
                /\ (lastClick.node \in expandedNodes) # (lastClick.node \in before.expanded)
                /\ LoadChapterEvents = <<>>
           ELSE ClickedItem.type = "chapter"
                    => \E i \in 1..Len(LoadChapterEvents) :
                          LoadChapterEvents[i].detail.chapter.id = lastClick.node

\* The half of C11 the code keeps: a click on a node with children toggles
\* it and emits no content:loadChapter.
C11_ExpandableClickToggles ==
    (variant \in ExpandedVariants /\ Clicked /\ HasChildren(allItems, lastClick.node))
        => /\ lastClick.op \in {"collapse", "expand"}
           /\ (lastClick.node \in expandedNodes) # (lastClick.node \in before.expanded)
           /\ LoadChapterEvents = <<>>

(***************************************************************************)
(* Claims about the view modes                                             *)
(***************************************************************************)

Resized == lastEvent.kind = "resize"

\* C12: a resize event with viewport width below 768 while the view mode is
\* split ('both') changes the mode to content-only; no resize event ever
\* changes the mode to split, so widening the viewport afterwards leaves the
\* mode at content-only; resize events in the other two modes leave the mode
\* unchanged.
C12_ResizeOneWay ==
    Resized
        => /\ (lastEvent.width < 768 /\ lastEvent.view = "both") => currentView = "content"
           /\ currentView = "both" => lastEvent.view = "both"
           /\ lastEvent.view \in {"mindmap", "content"} => currentView = lastEvent.view

\* C12 witness: a narrow resize took the split view to content-only and the
\* widening after it left it there.
C12_Witness ==
    /\ prevEvent.kind = "resize"
    /\ prevEvent.view = "both"
    /\ prevEvent.width < 768
    /\ Resized
    /\ lastEvent.width >= 768
    /\ lastEvent.view = "content"
    /\ currentView = "content"

(***************************************************************************)
(* Claims about the search box                                             *)
(***************************************************************************)

Searches == SelectSeq(firedLog, LAMBDA f : f.searched)

\* The input event that set the timer of a callback.
InputOf(f) == CHOOSE i \in 1..Len(inputLog) : inputLog[i].timer = f.timer

\* C13: for any sequence of search-input events at most one debounce timer
\* is pending at any time, and a search runs only for an input event that is
\* not followed by another input event within the 300 ms delay, using that
\* event's trimmed value.
C13_Debounced ==
    /\ Cardinality(timers) <= 1
    /\ \A k \in 1..Len(Searches) :
          LET f == Searches[k]
              i == InputOf(f)
          IN  /\ \E j \in 1..Len(inputLog) : inputLog[j].timer = f.timer
              /\ f.query = trim(inputLog[i].value)
              /\ f.at >= inputLog[i].at + 300
              /\ \A j \in (i + 1)..Len(inputLog) : inputLog[j].at >= inputLog[i].at + 300

\* C13 witness: the first input was superseded 150 ms later and only the
\* second one, typed with spaces around it, was searched.
C13_Witness ==
    /\ Len(inputLog) >= 2
    /\ inputLog[2].at = inputLog[1].at + 150
    /\ inputLog[1].value = <<"b", "b">>
    /\ inputLog[2].value = <<" ", "a", "b", " ">>
    /\ Len(Searches) = 1
    /\ Searches[1].query = <<"a", "b">>
    /\ Searches[1].timer = inputLog[2].timer

\* C14: when the debounce timer fires for an input whose trimmed value has
\* fewer than 2 characters, ContentData.search is not called and the results
\* panel is hidden; performSearch is called only with trimmed queries of
\* length >= 2.
C14_ShortQueriesNotSearched ==
    /\ \A k \in 1..Len(firedLog) :
          LET f == firedLog[k]
          IN  /\ Len(trim(inputLog[InputOf(f)].value)) < 2 => ~f.searched
              /\ f.searched => Len(f.query) >= 2 /\ f.query = trim(f.query)
    /\ (lastUi = "fire" /\ ~firedLog[Len(firedLog)].searched)
          => resultsHidden

\* C14 witness: results were showing when the timer of a one-character
\* input (after trimming) fired and hid them.
C14_Witness ==
    /\ lastUi = "fire"
    /\ Len(firedLog) = 2
    /\ firedLog[1].searched
    /\ ~firedLog[2].searched
    /\ inputLog[InputOf(firedLog[2])].value = <<" ", "a", " ">>
    /\ resultsHidden
    /\ resultsList.kind = "results"

(***************************************************************************)
(* Claims about highlightQuery                                             *)
(***************************************************************************)

Highlighted == renderInput.op = "highlight" /\ rendered.done

IsTag(tok) == tok \in {"<mark>", "</mark>"}

\* The HTML without the mark tags.
StripMarks(html) == SelectSeq(html, LAMBDA tok : ~IsTag(tok))

\* For every character of the HTML that is not a tag, whether it stands
\* between a <mark> and its </mark>.
MarkFlags(html) ==
    LET scan[i \in 0..Len(html)] ==
            IF i = 0 THEN [inside |-> FALSE, flags |-> <<>>]
            ELSE IF html[i] = "<mark>" THEN [scan[i - 1] EXCEPT !.inside = TRUE]
            ELSE IF html[i] = "</mark>" THEN [scan[i - 1] EXCEPT !.inside = FALSE]
            ELSE [scan[i - 1] EXCEPT !.flags = Append(@, scan[i - 1].inside)]
    IN  scan[Len(html)].flags

RECURSIVE DecodeEntities(_)

\* The text an HTML parser reads from escaped characters.
DecodeEntities(str) ==
    IF str = <<>> THEN <<>>
    ELSE IF Len(str) >= 5 /\ SubSeq(str, 1, 5) = <<"&", "a", "m", "p", ";">>
    THEN <<"&">> \o DecodeEntities(SubSeq(str, 6, Len(str)))
    ELSE IF Len(str) >= 4 /\ SubSeq(str, 1, 4) = <<"&", "l", "t", ";">>
    THEN <<"<">> \o DecodeEntities(SubSeq(str, 5, Len(str)))
    ELSE IF Len(str) >= 4 /\ SubSeq(str, 1, 4) = <<"&", "g", "t", ";">>
    THEN <<">">> \o DecodeEntities(SubSeq(str, 5, Len(str)))
    ELSE <<Head(str)>> \o DecodeEntities(Tail(str))

RECURSIVE OccurrencesFrom(_, _, _)

\* The case-insensitive occurrences of q in text, left to right without
\* overlap: their start positions (from 0), at p or later.
OccurrencesFrom(text, q, p) ==
    IF p + Len(q) > Len(text) THEN {}
    ELSE IF toLowerCase(SubSeq(text, p + 1, p + Len(q))) = toLowerCase(q)
    THEN {p} \cup OccurrencesFrom(text, q, p + Len(q))
    ELSE OccurrencesFrom(text, q, p + 1)

\* Where the first n characters of text end in its escaped form.
EscapedLen(text, n) == Len(escapeHtml(SubSeq(text, 1, n)))

\* C16: for every text and non-empty query, highlightQuery(text, query)
\* wraps in <mark> every case-insensitive occurrence of the raw query within
\* the raw text, also when the query or the text contains HTML-special
\* characters or regular-expression metacharacters.
C16_EveryOccurrenceMarked ==
    (Highlighted /\ renderInput.query # <<>>)
        => /\ ~rendered.threw
           /\ LET text == renderInput.text
                  q == renderInput.query
                  flags == MarkFlags(rendered.html)
              IN  \A p \in OccurrencesFrom(text, q, 0) :
                     \A k \in (EscapedLen(text, p) + 1)..EscapedLen(text, p + Len(q)) :
                        k <= Len(flags) /\ flags[k]

\* C18: for every text and query, removing the inserted <mark> and </mark>
\* tags from highlightQuery(text, query) and decoding the HTML entities
\* yields exactly the original text.
C18_DecodesToText ==
    Highlighted
        => /\ ~rendered.threw
           /\ DecodeEntities(StripMarks(rendered.html)) = renderInput.text

(***************************************************************************)
(* Claims about the results list                                           *)
(***************************************************************************)

Shown == renderInput.op = "show" /\ rendered.done

\* C15: showResults renders exactly min(50, n) result items, the first ones
\* in search order, for a result sequence of length n, while the summary
\* reports the true total n.
C15_CapAndTotal ==
    Shown
        => /\ ~rendered.threw
           /\ LET n == Len(renderInput.results)
              IN  /\ Len(rendered.items) = IF n < 50 THEN n ELSE 50
                  /\ \A i \in 1..Len(rendered.items) :
                        rendered.items[i].chapter = renderInput.results[i].chapter
                  /\ rendered.summary.total = n

\* Whether no raw '<', '>' or '&' is left: every '&' starts an entity.
IsEscaped(html) ==
    \A i \in 1..Len(html) :
        /\ html[i] \notin {"<", ">"}
        /\ html[i] = "&" =>
              \/ i + 4 <= Len(html) /\ SubSeq(html, i, i + 4) = <<"&", "a", "m", "p", ";">>
              \/ i + 3 <= Len(html) /\ SubSeq(html, i, i + 3) = <<"&", "l", "t", ";">>
              \/ i + 3 <= Len(html) /\ SubSeq(html, i, i + 3) = <<"&", "g", "t", ";">>

\* C17: every data-derived text placed into the search-results markup (the
\* query, the result's match label, its context snippet and its chapter
\* title) is HTML-escaped before insertion, so no raw '<' or '&' from course
\* data or user input reaches the rendered HTML.
C17_AllTextEscaped ==
    (Shown /\ ~rendered.threw)
        => /\ IsEscaped(rendered.summary.query)
           /\ \A i \in 1..Len(rendered.items) :
                 /\ IsEscaped(rendered.items[i].match)
                 /\ IsEscaped(StripMarks(rendered.items[i].context))
                 /\ IsEscaped(rendered.items[i].title)

(***************************************************************************)
(* Claims about the bookmarks and the startup                              *)
(***************************************************************************)

\* The text of the 'ob_bookmarks' entry, an absent entry counting as the
\* serialization of the empty list.
StoredBookmarks ==
    IF storage["ob_bookmarks"].present THEN storage["ob_bookmarks"].text
    ELSE <<"[", "]">>

\* An entry that is there but is not the serialization of a list.
Malformed(entry) == entry.present /\ ~IsJSON(entry.text)

\* C19: after startup and any sequence of bookmark mutations the
\* 'ob_bookmarks' entry (an absent entry counting as the empty list) equals
\* the serialization of the in-memory bookmark list: every mutation writes
\* through before it returns, and storage is read only once, at startup.
\* The entry found at startup is absent or a serialized list; a malformed
\* one, the subject of C20, is replaced by the first mutation.
C19_StorageInSync ==
    /\ storageReads <= 1
    /\ (appClass = "views" /\ appPhase = "ready")
          => /\ storageReads = 1
             /\ ~Malformed(storage["ob_bookmarks"]) => StoredBookmarks = JSONstringify(bookmarks)
             /\ lastEvent.kind = "removeBookmark"
                   => storage["ob_bookmarks"] = Entry(JSONstringify(bookmarks))

\* C19 witness: two bookmarks were read at startup and the first was
\* removed; the entry holds the one that is left.
C19_Witness ==
    /\ appPhase = "ready"
    /\ lastEvent.kind = "removeBookmark"
    /\ lastEvent.entry = Entry(<<"[", "1", ",", "2", "]">>)
    /\ bookmarks = <<Bookmark(2)>>
    /\ storage["ob_bookmarks"] = Entry(<<"[", "2", "]">>)
    /\ storageReads = 1

\* C20: at startup an absent or malformed 'ob_bookmarks' entry is treated as
\* the empty bookmark list and an absent or malformed visited flag as false:
\* initialization completes normally (event listeners attached, initial
\* view set) instead of ending in the error pane.
C20_StartupTolerant ==
    lastEvent.kind = "init"
        => /\ appPhase = "ready"
           /\ listeners
           /\ appClass = "views"
                 => /\ viewSet
                    /\ (~lastEvent.entry.present \/ Malformed(lastEvent.entry))
                          => bookmarks = <<>>
           /\ (appClass = "guide" /\ storage["ob_visited"] # Entry(<<"true">>))
                 => quickGuide = "shown"

(***************************************************************************)
(* App.init (App file with views 48-83, main.js:43-71) over                *)
(* ContentData.load: the page from the construction of the App to the end  *)
(* of init()                                                               *)
(***************************************************************************)

\* The modules init() builds, by the name of the field that holds them.
Modules == <<"mindMap", "navigation", "search">>

NoError == "none"

\* The App constructor has run (built on DOMContentLoaded, main.js:432-440)
\* over a fresh ContentData.
StartConstructed ==
    /\ startClass \in {"views", "guide"}
    /\ initPhase = "constructed"
    /\ initCall = 0
    /\ built = <<>>
    /\ errorPane = NoError

\* init() up to `await this.contentData.load()`: the call is made and init()
\* waits for the promise it returned.
StartInit ==
    /\ initPhase = "constructed"
    /\ Load
    /\ initCall' = Len(calls) + 1
    /\ initPhase' = "awaitLoad"
    /\ UNCHANGED <<startClass, built, errorPane>>

\* A plausible bug: init() goes on when the promise settles, fulfilled or not.
LoadResumesEitherWay ==
    /\ initPhase = "awaitLoad"
    /\ calls[initCall].state \in {"fulfilled", "rejected"}
    /\ built' = Append(built, "mindMap")
    /\ initPhase' = "awaitMindMap"
    /\ UNCHANGED <<startClass, initCall, errorPane>>

\* The awaited load() is fulfilled: init() goes on with updateStats() (views
\* only; it reads through `?.` and `|| []`, so it passes on any data), builds
\* the MindMap and waits for its init().
LoadResumes ==
    /\ initPhase = "awaitLoad"
    /\ calls[initCall].state = "fulfilled"
    /\ built' = Append(built, "mindMap")
    /\ initPhase' = "awaitMindMap"
    /\ UNCHANGED <<startClass, initCall, errorPane>>

\* showError (views 507-518, main.js:248-262): the message goes into the
\* content pane.
showError(message) == message

\* The awaited load() is rejected: the catch block of init() runs showError.
LoadThrows ==
    /\ initPhase = "awaitLoad"
    /\ calls[initCall].state = "rejected"
    /\ errorPane' = showError(calls[initCall].value)
    /\ initPhase' = "error"
    /\ UNCHANGED <<startClass, initCall, built>>

\* MindMap.init() has returned (it catches its own errors, mindmap.js:39-67):
\* init() builds the Navigation and waits for its init().
MindMapResumes ==
    /\ initPhase = "awaitMindMap"
    /\ built' = Append(built, "navigation")
    /\ initPhase' = "awaitNavigation"
    /\ UNCHANGED <<startClass, initCall, errorPane>>

\* Navigation.init() has returned (content-data.js:360-375 catches its own
\* errors): init() builds the Search and waits for its init().
NavigationResumes ==
    /\ initPhase = "awaitNavigation"
    /\ built' = Append(built, "search")
    /\ initPhase' = "awaitSearch"
    /\ UNCHANGED <<startClass, initCall, errorPane>>

\* Search.init() has returned: the rest of init() runs.  In the class with
\* views loadBookmarks() throws on a stored entry that is not JSON, and the
\* catch block shows that error; main.js parses nothing there.
SearchResumes(threw) ==
    /\ initPhase = "awaitSearch"
    /\ threw => startClass = "views"
    /\ initPhase' = IF threw THEN "error" ELSE "ready"
    /\ errorPane' = IF threw THEN showError("SyntaxError") ELSE errorPane
    /\ UNCHANGED <<startClass, initCall, built>>

InitStart ==
    /\ LoadInit
    /\ FlatIdle
    /\ SearchIdle
    /\ MapIdle
    /\ AppIdle
    /\ UiIdle
    /\ RenderIdle
    /\ NavIdle /\ ToolIdle
    /\ StartConstructed

otherThanStartAndLoad == <<flatVars, searchVars, mapVars, appVars, uiVars, renderVars,
                           navVars, toolVars>>

NextStart ==
    \/ StartInit /\ UNCHANGED otherThanStartAndLoad
    \/ LoadResumes /\ UNCHANGED <<loadVars, otherThanStartAndLoad>>
    \/ LoadThrows /\ UNCHANGED <<loadVars, otherThanStartAndLoad>>
    \/ MindMapResumes /\ UNCHANGED <<loadVars, otherThanStartAndLoad>>
    \/ NavigationResumes /\ UNCHANGED <<loadVars, otherThanStartAndLoad>>
    \/ \E threw \in BOOLEAN : SearchResumes(threw) /\ UNCHANGED <<loadVars, otherThanStartAndLoad>>
    \/ Load /\ UNCHANGED otherThanLoad
    \/ FetchRejects /\ UNCHANGED otherThanLoad
    \/ \E ok \in BOOLEAN : ResponseArrives(ok) /\ UNCHANGED otherThanLoad
    \/ JsonRejects /\ UNCHANGED otherThanLoad
    \/ \E data \in JsonValues : JsonResolves(data) /\ UNCHANGED otherThanLoad
    \/ CatchRethrows /\ UNCHANGED otherThanLoad
    \/ ChainFulfils /\ UNCHANGED otherThanLoad
    \/ \E i \in 1..MaxCalls : CallSettles(i) /\ UNCHANGED otherThanLoad

SpecStart == InitStart /\ [][NextStart]_vars

(***************************************************************************)
(* C21                                                                     *)
(***************************************************************************)

\* The load() call init() awaits, once made.
InitLoadState == IF initCall = 0 THEN "none" ELSE calls[initCall].state

IsPrefix(s, t) == Len(s) =< Len(t) /\ SubSeq(t, 1, Len(s)) = s

\* C21: init() builds the mind map, the navigation and the search only once
\* the load() it awaited is fulfilled, and in that order; when that load() is
\* rejected nothing is built, and once init() has ended the content pane shows
\* the error load() failed with.
C21_BuiltAfterLoad ==
    /\ IsPrefix(built, Modules)
    /\ built # <<>> => InitLoadState = "fulfilled" /\ courseData # Null
    /\ InitLoadState = "rejected" =>
          /\ built = <<>>
          /\ initPhase \in {"awaitLoad", "error"}
          /\ initPhase = "error" => errorPane = calls[initCall].value
    /\ initPhase = "ready" => built = Modules /\ errorPane = NoError

\* init() has ended on a failed load() with the error shown.
C21_Witness ==
    /\ InitLoadState = "rejected"
    /\ initPhase = "error"
    /\ errorPane \in LoadErrors

C21_WitnessBuilt == initPhase = "ready" /\ built = Modules /\ InitLoadState = "fulfilled"

(***************************************************************************)
(* Navigation (content-data.js:350-697)                                    *)
(***************************************************************************)

\* The sections and the key takeaways a chapter can have: none or one.
NavSectionLists == {<<>>, <<[title |-> <<"s">>, subsections |-> <<>>]>>}
NavTakeawayLists == {<<>>, <<1>>}

\* Course documents: one part with two chapters.
NavDocs ==
    { [parts |-> <<[part |-> 1, chapters |-> <<1, 2>>]>>,
       chapters |-> <<[chapter |-> 1, sections |-> c[1].sections,
                       keyTakeaways |-> c[1].keyTakeaways],
                      [chapter |-> 2, sections |-> c[2].sections,
                       keyTakeaways |-> c[2].keyTakeaways]>>] :
        c \in [1..2 -> [sections : NavSectionLists, keyTakeaways : NavTakeawayLists]] }

PartElement(partNum) == <<"part", partNum>>
ChapterElement(chapterNum) == <<"chapter", chapterNum>>

\* The chapters render() has drawn: those of renderPart, for every part.
RenderedChapters(data) ==
    LET OfPart(part) == getChaptersByPart(data, part.part)
        all == FlatMap(data.parts, OfPart)
    IN  {all[i] : i \in 1..Len(all)}

\* renderChapter, line 414: chapter.sections && chapter.sections.length > 0.
hasSections(chapter) == Len(chapter.sections) > 0

\* Whether renderKeyTakeaways drew its list (lines 463-465 return '' otherwise).
hasTakeaways(chapter) == Len(chapter.keyTakeaways) > 0

\* A plausible fix: the header handler asks whether the chapter has sections.
NavSectionsFromSectionsOnly(chapter) == hasSections(chapter)

\* chapter.querySelector('.nav-sections') of the header handler (line 506): the
\* chapter element holds a div of that class from renderSections (439) and
\* another from renderKeyTakeaways (468).
querySelectorNavSections(chapter) == hasSections(chapter) \/ hasTakeaways(chapter)

\* classList.toggle('expanded')
Toggle(element) ==
    IF element \in navExpanded THEN navExpanded \ {element} ELSE navExpanded \cup {element}

\* What a content event of the tree carries: the chapter by its number, the
\* section by its title (<<>>: none), the takeaway by its index (-1: none).
NavDetail(chapterNum, section, index) ==
    [chapter |-> chapterNum, section |-> section, index |-> index]

NavRecord(kind, chapterNum) ==
    /\ navClick' = [kind |-> kind, chapter |-> chapterNum]
    /\ navBefore' = navExpanded

\* Click on a part header (lines 490-496): togglePart (549-551).
ClickPartHeader(partNum) ==
    /\ getPart(navData, partNum) # <<>>
    /\ navExpanded' = Toggle(PartElement(partNum))
    /\ navEmitted' = <<>>
    /\ NavRecord("partHeader", 0)
    /\ UNCHANGED navData

\* Click on a chapter header (lines 499-514): toggleChapter when the chapter
\* element holds a .nav-sections element, loadChapter (587-595) otherwise.
ClickChapterHeader(chapter) ==
    /\ chapter \in RenderedChapters(navData)
    /\ IF querySelectorNavSections(chapter)
       THEN /\ navExpanded' = Toggle(ChapterElement(chapter.chapter))
            /\ navEmitted' = <<>>
       ELSE /\ navEmitted' =
                  IF getChapter(navData, chapter.chapter) = <<>> THEN <<>>
                  ELSE <<CustomEvent("content:loadChapter", NavDetail(chapter.chapter, <<>>, -1))>>
            /\ UNCHANGED navExpanded
    /\ NavRecord("chapterHeader", chapter.chapter)
    /\ UNCHANGED navData

\* Click on a section row (lines 517-530): loadSection (602-612).
ClickSection(chapter, i) ==
    /\ chapter \in RenderedChapters(navData)
    /\ i \in 1..Len(chapter.sections)
    /\ navEmitted' = <<CustomEvent("content:loadSection",
                                   NavDetail(chapter.chapter, chapter.sections[i].title, -1))>>
    /\ NavRecord("section", chapter.chapter)
    /\ UNCHANGED <<navData, navExpanded>>

\* Click on a takeaway row (lines 517-530): loadTakeaway (619-629).
ClickTakeaway(chapter, i) ==
    /\ chapter \in RenderedChapters(navData)
    /\ i \in 1..Len(Slice5(chapter.keyTakeaways))
    /\ navEmitted' = <<CustomEvent("content:loadTakeaway", NavDetail(chapter.chapter, <<>>, i - 1))>>
    /\ NavRecord("takeaway", chapter.chapter)
    /\ UNCHANGED <<navData, navExpanded>>

AllNavElements(data) ==
    {PartElement(data.parts[i].part) : i \in 1..Len(data.parts)}
    \cup {ChapterElement(ch.chapter) : ch \in RenderedChapters(data)}

\* collapseAll (lines 564-570) and expandAll (575-581).
CollapseAll ==
    /\ navExpanded' = {}
    /\ navEmitted' = <<>>
    /\ NavRecord("collapseAll", 0)
    /\ UNCHANGED navData

ExpandAll ==
    /\ navExpanded' = AllNavElements(navData)
    /\ navEmitted' = <<>>
    /\ NavRecord("expandAll", 0)
    /\ UNCHANGED navData

\* Navigation.init on a loaded document: everything drawn, nothing expanded.
NavInit ==
    /\ navData \in NavDocs
    /\ navExpanded = {}
    /\ navClick = [kind |-> "none", chapter |-> 0]
    /\ navBefore = {}
    /\ navEmitted = <<>>

InitNav ==
    /\ Loaded("doc")
    /\ FlatIdle
    /\ SearchIdle
    /\ MapIdle
    /\ AppIdle
    /\ UiIdle
    /\ RenderIdle
    /\ StartIdle
    /\ ToolIdle
    /\ NavInit

NextNav ==
    \/ \E p \in 1..2 : ClickPartHeader(p) /\ UNCHANGED otherThanNav
    \/ \E ch \in RenderedChapters(navData) : ClickChapterHeader(ch) /\ UNCHANGED otherThanNav
    \/ \E ch \in RenderedChapters(navData), i \in 1..2 : ClickSection(ch, i) /\ UNCHANGED otherThanNav
    \/ \E ch \in RenderedChapters(navData), i \in 1..2 : ClickTakeaway(ch, i) /\ UNCHANGED otherThanNav
    \/ CollapseAll /\ UNCHANGED otherThanNav
    \/ ExpandAll /\ UNCHANGED otherThanNav

SpecNav == InitNav /\ [][NextNav]_vars

(***************************************************************************)
(* C22                                                                     *)
(***************************************************************************)

ClickedChapter == getChapter(navData, navClick.chapter)[1]

\* C22: a click on the header of a chapter without sections dispatches
\* content:loadChapter for that chapter and leaves its expanded state alone,
\* with or without key takeaways; a click on the header of a chapter with
\* sections toggles its expanded state and dispatches nothing.
C22_HeaderClick ==
    navClick.kind = "chapterHeader" =>
        IF hasSections(ClickedChapter)
        THEN /\ navEmitted = <<>>
             /\ (ChapterElement(navClick.chapter) \in navExpanded)
                    # (ChapterElement(navClick.chapter) \in navBefore)
        ELSE /\ navEmitted = <<CustomEvent("content:loadChapter",
                                           NavDetail(navClick.chapter, <<>>, -1))>>
             /\ navExpanded = navBefore

(***************************************************************************)
(* The export and share buttons: MindMap.exportAsImage (vis.js variant     *)
(* 398-418 and D3 tree 811-839 of the variants file, mindmap.js:611-640    *)
(* and 1049-1079) and App.shareContent (App file with views 478-491,       *)
(* main.js:233-245)                                                        *)
(***************************************************************************)

\* the largest number of export and share calls followed
MaxJobs == 2

MapVariants == {"vis", "tree", "force", "vertical"}

\* The page: which MindMap and App classes it loads, whether the surface the
\* export reads exists (the canvas of vis.js, this.svg of the D3 variants),
\* whether navigator.share and navigator.clipboard are defined.
ToolEnvs ==
    [map : MapVariants, app : {"views", "guide"}, surface : BOOLEAN,
     share : BOOLEAN, clipboard : BOOLEAN]

\* A call that has done nothing yet.  phase: "loading" (the Image is loading),
\* "encoding" (toBlob is at work), "sharing" (navigator.share is pending),
\* "copying" (clipboard.writeText is pending) or "ended" (nothing pending).
Job(kind, phase) ==
    [kind |-> kind, phase |-> phase, download |-> FALSE, logged |-> FALSE,
     uncaught |-> FALSE, wrote |-> FALSE, alerted |-> FALSE,
     shareRejected |-> FALSE, writeRejected |-> FALSE]

\* exportAsImage() up to its return.  vis.js: a missing canvas is logged,
\* otherwise toBlob starts.  D3 variants: this.svg.node() throws into the
\* catch block when there is no svg, otherwise img.src starts the load.
exportAsImage(env) ==
    IF ~env.surface THEN [Job("export", "ended") EXCEPT !.logged = TRUE]
    ELSE IF env.map = "vis" THEN Job("export", "encoding")
    ELSE Job("export", "loading")

\* Click on exportMapBtn.
ExportAsImage ==
    /\ Len(jobs) < MaxJobs
    /\ jobs' = Append(jobs, exportAsImage(toolEnv))
    /\ UNCHANGED toolEnv

\* img.onload: draw the image and start toBlob.
ImageLoads(i) ==
    /\ i \in 1..Len(jobs)
    /\ jobs[i].phase = "loading"
    /\ jobs' = [jobs EXCEPT ![i].phase = "encoding"]
    /\ UNCHANGED toolEnv

\* The image fails to load: the error event finds no handler (only onload is
\* set), nothing else is pending.
ImageFails(i) ==
    /\ i \in 1..Len(jobs)
    /\ jobs[i].phase = "loading"
    /\ jobs' = [jobs EXCEPT ![i].phase = "ended"]
    /\ UNCHANGED toolEnv

\* The toBlob callback: URL.createObjectURL(blob) throws a TypeError on a null
\* blob, outside any try block; otherwise link.click() starts the download.
BlobReady(i, blob) ==
    /\ i \in 1..Len(jobs)
    /\ jobs[i].phase = "encoding"
    /\ jobs' = IF blob = "null"
               THEN [jobs EXCEPT ![i].phase = "ended", ![i].uncaught = TRUE]
               ELSE [jobs EXCEPT ![i].phase = "ended", ![i].download = TRUE]
    /\ UNCHANGED toolEnv

\* shareContent() up to its return: navigator.share(...) when it is defined,
\* else navigator.clipboard.writeText(...), a TypeError when there is no
\* navigator.clipboard.
shareContent(env) ==
    IF env.share THEN Job("share", "sharing")
    ELSE IF env.clipboard THEN [Job("share", "copying") EXCEPT !.wrote = TRUE]
    ELSE [Job("share", "ended") EXCEPT !.uncaught = TRUE]

\* Click on shareBtn.
ShareContent ==
    /\ Len(jobs) < MaxJobs
    /\ jobs' = Append(jobs, shareContent(toolEnv))
    /\ UNCHANGED toolEnv

\* What the .catch handlers do: the class with views logs, main.js drops.
CatchLogs(env) == env.app = "views"

\* The promise of navigator.share settles: .catch on a rejection, nothing more.
ShareSettles(i, ok) ==
    /\ i \in 1..Len(jobs)
    /\ jobs[i].phase = "sharing"
    /\ jobs' = IF ok THEN [jobs EXCEPT ![i].phase = "ended"]
               ELSE [jobs EXCEPT ![i].phase = "ended", ![i].shareRejected = TRUE,
                                 ![i].logged = CatchLogs(toolEnv)]
    /\ UNCHANGED toolEnv

\* The promise of writeText settles: .then alerts, .catch on a rejection.
WriteTextSettles(i, ok) ==
    /\ i \in 1..Len(jobs)
    /\ jobs[i].phase = "copying"
    /\ jobs' = IF ok THEN [jobs EXCEPT ![i].phase = "ended", ![i].alerted = TRUE]
               ELSE [jobs EXCEPT ![i].phase = "ended", ![i].writeRejected = TRUE,
                                 ![i].logged = CatchLogs(toolEnv)]
    /\ UNCHANGED toolEnv

ToolInit == toolEnv \in ToolEnvs /\ jobs = <<>>

InitTool ==
    /\ Loaded("doc")
    /\ FlatIdle
    /\ SearchIdle
    /\ MapIdle
    /\ AppIdle
    /\ UiIdle
    /\ RenderIdle
    /\ StartIdle
    /\ NavIdle
    /\ ToolInit

NextTool ==
    \/ ExportAsImage /\ UNCHANGED otherThanTool
    \/ \E i \in 1..MaxJobs : ImageLoads(i) /\ UNCHANGED otherThanTool
    \/ \E i \in 1..MaxJobs : ImageFails(i) /\ UNCHANGED otherThanTool
    \/ \E i \in 1..MaxJobs, blob \in {"null", "png"} : BlobReady(i, blob) /\ UNCHANGED otherThanTool
    \/ ShareContent /\ UNCHANGED otherThanTool
    \/ \E i \in 1..MaxJobs, ok \in BOOLEAN : ShareSettles(i, ok) /\ UNCHANGED otherThanTool
    \/ \E i \in 1..MaxJobs, ok \in BOOLEAN : WriteTextSettles(i, ok) /\ UNCHANGED otherThanTool

SpecTool == InitTool /\ [][NextTool]_vars

(***************************************************************************)
(* C23, C24                                                                *)
(***************************************************************************)

Ended(kind) == {i \in 1..Len(jobs) : jobs[i].kind = kind /\ jobs[i].phase = "ended"}

\* C23: every exportAsImage() call that has ended has either started a
\* download or logged its failure: a missing surface, an image that does not
\* load and a null blob included.
C23_DownloadOrReport ==
    \A i \in Ended("export") : jobs[i].download \/ jobs[i].logged

\* C24: shareContent() writes the URL to the clipboard when navigator.share is
\* not there and when the share is rejected; a failing clipboard is logged and
\* nothing is thrown.
C24_FallsBackToClipboard ==
    \A i \in Ended("share") :
        /\ (~toolEnv.share \/ jobs[i].shareRejected) => jobs[i].wrote
        /\ jobs[i].writeRejected => jobs[i].logged
        /\ ~jobs[i].uncaught

(***************************************************************************)
(* Callers of the lookups getChapter, getPart and getChaptersByPart        *)
(* (content-data.js:66-89)                                                 *)
(***************************************************************************)

LookupOps == {"getChapter", "getPart", "getChaptersByPart"}

\* The numbers looked up: those the documents use and one they never use.
LookupNumbers == 0..MaxChapters

\* The documents looked into: those of FlatDocs whose chapters carry no
\* takeaways (the lookups do not read them).
LookupDocs ==
    {data \in FlatDocs :
        \A i \in 1..Len(data.chapters) : data.chapters[i].keyTakeaways = <<>>}

\* The lookup is called on a loaded store, or before any load().
LookupInit ==
    /\ \/ \E data \in LookupDocs : Loaded(data)
       \/ /\ courseData = NoCourseData
          /\ loadingPromise = NoPromise
          /\ chain = [stage |-> "none", value |-> Null]
          /\ fetchCount = 0
          /\ calls = <<>>
    /\ renderInput \in [op : LookupOps, number : LookupNumbers]
    /\ rendered = NotRendered

CallGetChapter ==
    /\ renderInput.op = "getChapter"
    /\ ~rendered.done
    /\ rendered' = [done |-> TRUE, value |-> getChapter(courseData, renderInput.number)]
    /\ UNCHANGED renderInput

CallGetPart ==
    /\ renderInput.op = "getPart"
    /\ ~rendered.done
    /\ rendered' = [done |-> TRUE, value |-> getPart(courseData, renderInput.number)]
    /\ UNCHANGED renderInput

CallGetChaptersByPart ==
    /\ renderInput.op = "getChaptersByPart"
    /\ ~rendered.done
    /\ rendered' = [done |-> TRUE, value |-> getChaptersByPart(courseData, renderInput.number)]
    /\ UNCHANGED renderInput

InitLookup ==
    /\ LookupInit
    /\ FlatIdle
    /\ SearchIdle
    /\ MapIdle
    /\ AppIdle
    /\ UiIdle
    /\ StartIdle
    /\ NavIdle
    /\ ToolIdle

NextLookup ==
    \/ CallGetChapter /\ UNCHANGED otherThanRender
    \/ CallGetPart /\ UNCHANGED otherThanRender
    \/ CallGetChaptersByPart /\ UNCHANGED otherThanRender

SpecLookup == InitLookup /\ [][NextLookup]_vars

(***************************************************************************)
(* C25                                                                     *)
(***************************************************************************)

\* The chapters and parts of the store, none before a load.
StoreChapters == IF HasData(courseData) THEN courseData.chapters ELSE <<>>
StoreParts == IF HasData(courseData) THEN courseData.parts ELSE <<>>

ChapterResolves(n) == \E i \in 1..Len(StoreChapters) : StoreChapters[i].chapter = n
PartResolves(n) == \E i \in 1..Len(StoreParts) : StoreParts[i].part = n

\* The chapter references of the first part numbered n that resolve, in the
\* order the part declares them.
ResolvableRefs(n) ==
    LET first == CHOOSE i \in 1..Len(StoreParts) :
                    /\ StoreParts[i].part = n
                    /\ \A j \in 1..(i - 1) : StoreParts[j].part # n
    IN  SelectSeq(StoreParts[first].chapters, ChapterResolves)

LookedUp(op) == rendered.done /\ renderInput.op = op

\* C25: a lookup by a number that does not resolve yields the absent value:
\* getChapter and getPart give null, getChaptersByPart gives the chapters of
\* the part's references that resolve, in the part's order, the others
\* dropped, and the empty list for an unknown part.
C25_AbsentValues ==
    /\ LookedUp("getChapter") /\ ~ChapterResolves(renderInput.number)
          => rendered.value = <<>>
    /\ LookedUp("getPart") /\ ~PartResolves(renderInput.number)
          => rendered.value = <<>>
    /\ LookedUp("getChaptersByPart") =>
          IF ~PartResolves(renderInput.number) THEN rendered.value = <<>>
          ELSE /\ [j \in 1..Len(rendered.value) |-> rendered.value[j].chapter]
                     = ResolvableRefs(renderInput.number)
               /\ \A j \in 1..Len(rendered.value) :
                     \E i \in 1..Len(StoreChapters) : StoreChapters[i] = rendered.value[j]

\* getChaptersByPart on a part one of whose references resolves and another
\* does not.
C25_Witness ==
    /\ LookedUp("getChaptersByPart")
    /\ PartResolves(renderInput.number)
    /\ Len(rendered.value) > 0
    /\ \E i \in 1..Len(StoreParts) :
          /\ StoreParts[i].part = renderInput.number
          /\ Len(rendered.value) < Len(StoreParts[i].chapters)

C25_WitnessNull == LookedUp("getChapter") /\ HasData(courseData)
                   /\ ~ChapterResolves(renderInput.number) /\ rendered.value = <<>>

(***************************************************************************)
(* Callers of getContextSnippet (content-data.js:114-123, 125-136,         *)
(* 167-176): the text holds the lowercased query                           *)
(***************************************************************************)

Repeat(char, n) == [i \in 1..n |-> char]

\* The lowercased queries and the ways the text spells them.
SnippetQueries == {<<"a">>, <<"a", "b">>, <<"b", "a">>}
Spellings(q) == {q, [i \in 1..Len(q) |-> IF q[i] = "a" THEN "A" ELSE q[i]]}

\* The numbers of characters before and after the match: none, one, and
\* the lengths around the 60 and the 90 of the window.
SnippetLeads == {0, 1, SnippetBefore - 1, SnippetBefore, SnippetBefore + 1}
SnippetTails == {0, 1, SnippetAfter - 1, SnippetAfter, SnippetAfter + 1}

\* The texts: a run of "b", the query in one of its spellings, another run,
\* and for some a second occurrence at the end.
SnippetTexts(q) ==
    { Repeat("b", lead) \o spelt \o Repeat("b", tail) \o again :
        lead \in SnippetLeads, tail \in SnippetTails, spelt \in Spellings(q),
        again \in {<<>>, q} }

SnippetInit ==
    /\ \E q \in SnippetQueries : \E text \in SnippetTexts(q) :
          renderInput = [op |-> "snippet", text |-> text, query |-> q]
    /\ rendered = NotRendered

CallGetContextSnippet ==
    /\ renderInput.op = "snippet"
    /\ ~rendered.done
    /\ rendered' = [done |-> TRUE,
                    snippet |-> getContextSnippet(renderInput.text, renderInput.query)]
    /\ UNCHANGED renderInput

InitSnippet ==
    /\ Loaded("doc")
    /\ FlatIdle
    /\ SearchIdle
    /\ MapIdle
    /\ AppIdle
    /\ UiIdle
    /\ StartIdle
    /\ NavIdle
    /\ ToolIdle
    /\ SnippetInit

NextSnippet == CallGetContextSnippet /\ UNCHANGED otherThanRender

SpecSnippet == InitSnippet /\ [][NextSnippet]_vars

(***************************************************************************)
(* C26                                                                     *)
(***************************************************************************)

\* Whether the text spells the query at position i (from 0), in any case.
SpelledAt(text, q, i) ==
    /\ i + Len(q) =< Len(text)
    /\ \A j \in 1..Len(q) : toLowerCase(<<text[i + j]>>) = <<q[j]>>

\* The position of the first match.
FirstMatch(text, q) ==
    CHOOSE i \in 0..Len(text) :
        /\ SpelledAt(text, q, i)
        /\ \A j \in 0..(i - 1) : ~SpelledAt(text, q, j)

StartsWith(s, prefix) == Len(s) >= Len(prefix) /\ SubSeq(s, 1, Len(prefix)) = prefix
EndsWith(s, suffix) ==
    Len(s) >= Len(suffix) /\ SubSeq(s, Len(s) - Len(suffix) + 1, Len(s)) = suffix

\* C26: for a text holding the query, first at position i, the snippet is the
\* text from max(0, i - 60) to min(length, i + |query| + 90): the match lies
\* in it, it has at most 150 + |query| characters of the text, '...' leads it
\* exactly when it starts after the text's beginning and '...' ends it
\* exactly when it stops before the text's end.
C26_Window ==
    (rendered.done /\ renderInput.op = "snippet") =>
        LET text == renderInput.text
            q == renderInput.query
            i == FirstMatch(text, q)
            from == IF i - SnippetBefore > 0 THEN i - SnippetBefore ELSE 0
            to == IF i + Len(q) + SnippetAfter < Len(text)
                  THEN i + Len(q) + SnippetAfter ELSE Len(text)
            out == rendered.snippet
            leads == StartsWith(out, Ellipsis)
            trails == EndsWith(out, Ellipsis)
            window == SubSeq(out, IF leads THEN 4 ELSE 1,
                             IF trails THEN Len(out) - 3 ELSE Len(out))
        IN  /\ window = SubSeq(text, from + 1, to)
            /\ from =< i /\ i + Len(q) =< to
            /\ Len(window) =< SnippetBefore + SnippetAfter + Len(q)
            /\ leads <=> from > 0
            /\ trails <=> to < Len(text)

\* A snippet cut on both sides.
C26_Witness ==
    /\ rendered.done
    /\ renderInput.op = "snippet"
    /\ StartsWith(rendered.snippet, Ellipsis)
    /\ EndsWith(rendered.snippet, Ellipsis)
    /\ Len(rendered.snippet) = SnippetBefore + SnippetAfter + Len(renderInput.query) + 6

C26_WitnessWhole ==
    /\ rendered.done
    /\ renderInput.op = "snippet"
    /\ rendered.snippet = renderInput.text
    /\ Len(renderInput.text) > SnippetBefore + SnippetAfter

(***************************************************************************)
(* The recursive section traversals: searchSections (content-data.js:      *)
(* 153-197), countSectionConcepts (246-258) and Navigation.findSection     *)
(* (637-652), one step per loop iteration, call and return                 *)
(***************************************************************************)

\* the number of section objects of an input
MaxSections == 2
\* the depth at which the engine's call stack is exhausted (RangeError)
MaxStack == 4

SectionIds == 1..MaxSections

\* The section objects of an input, each with the list of the objects its
\* subsections array refers to.  A parsed JSON document gives a tree; an
\* object graph built otherwise may refer back to an enclosing section.
SectionGraphs == [SectionIds -> SeqsUpTo(SectionIds, 2)]

WalkOps == {"searchSections", "countSectionConcepts", "findSection"}

\* The guard of the recursive call: searchSections asks for a non-empty
\* array (line 193), the other two for a truthy one (253, 645).
RecursesInto(op, subsections) ==
    IF op = "searchSections" THEN Len(subsections) > 0 ELSE TRUE

Frame(list) == [list |-> list, pos |-> 1]

\* The call: section 1 is the only section of the chapter; findSection looks
\* for the title of a section, or for a title no section has (0).
WalkInit ==
    /\ renderInput \in [op : WalkOps, graph : SectionGraphs, title : {0} \cup SectionIds]
    /\ renderInput.op # "findSection" => renderInput.title = 0
    /\ rendered = [done |-> FALSE, status |-> "running", stack |-> <<Frame(<<1>>)>>,
                   visits |-> 0]

Top == rendered.stack[Len(rendered.stack)]

\* The frames below the top one, each having moved on to its next element.
Returned ==
    LET below == SubSeq(rendered.stack, 1, Len(rendered.stack) - 1)
    IN  IF below = <<>> THEN <<>>
        ELSE [below EXCEPT ![Len(below)].pos = below[Len(below)].pos + 1]

\* The loop of the top call is over (for findSection: `return null`): the
\* call returns to its caller, the outermost one to the caller of the walk.
WalkReturn ==
    /\ rendered.status = "running"
    /\ Top.pos > Len(Top.list)
    /\ rendered' = IF Len(rendered.stack) = 1
                   THEN [rendered EXCEPT !.done = TRUE, !.status = "returned", !.stack = <<>>]
                   ELSE [rendered EXCEPT !.stack = Returned]
    /\ UNCHANGED renderInput

\* findSection, lines 641-643: the section has the title, every call returns it.
WalkFound ==
    /\ rendered.status = "running"
    /\ Top.pos =< Len(Top.list)
    /\ renderInput.op = "findSection"
    /\ Top.list[Top.pos] = renderInput.title
    /\ rendered' = [rendered EXCEPT !.done = TRUE, !.status = "returned", !.stack = <<>>,
                                    !.visits = @ + 1]
    /\ UNCHANGED renderInput

\* One element of the loop: the section is looked at, and the function calls
\* itself on its subsections; the engine throws a RangeError when the call
\* stack is exhausted.
WalkVisit ==
    /\ rendered.status = "running"
    /\ Top.pos =< Len(Top.list)
    /\ ~(renderInput.op = "findSection" /\ Top.list[Top.pos] = renderInput.title)
    /\ LET subsections == renderInput.graph[Top.list[Top.pos]]
       IN  rendered' =
              IF ~RecursesInto(renderInput.op, subsections)
              THEN [rendered EXCEPT !.visits = @ + 1,
                                    !.stack[Len(rendered.stack)].pos = @ + 1]
              ELSE IF Len(rendered.stack) = MaxStack
              THEN [rendered EXCEPT !.done = TRUE, !.status = "RangeError",
                                    !.visits = @ + 1]
              ELSE [rendered EXCEPT !.visits = @ + 1,
                                    !.stack = Append(@, Frame(subsections))]
    /\ UNCHANGED renderInput

InitWalk ==
    /\ Loaded("doc")
    /\ FlatIdle
    /\ SearchIdle
    /\ MapIdle
    /\ AppIdle
    /\ UiIdle
    /\ StartIdle
    /\ NavIdle
    /\ ToolIdle
    /\ WalkInit

NextWalk ==
    \/ WalkReturn /\ UNCHANGED otherThanRender
    \/ WalkFound /\ UNCHANGED otherThanRender
    \/ WalkVisit /\ UNCHANGED otherThanRender

SpecWalk == InitWalk /\ [][NextWalk]_vars

(***************************************************************************)
(* C27                                                                     *)
(***************************************************************************)

\* Whether section `to` is reached from section `from` through subsections.
RECURSIVE ReachesIn(_, _, _, _)
ReachesIn(graph, from, to, steps) ==
    /\ steps > 0
    /\ \E i \in 1..Len(graph[from]) :
          graph[from][i] = to \/ ReachesIn(graph, graph[from][i], to, steps - 1)

\* A cycle among the sections the walk can reach from section 1.
Cyclic(graph) ==
    \E n \in SectionIds :
        /\ n = 1 \/ ReachesIn(graph, 1, n, MaxSections)
        /\ ReachesIn(graph, n, n, MaxSections)

\* The sections whose subsections the pending calls walk, outermost first.
Path ==
    [k \in 1..(Len(rendered.stack) - 1) |-> rendered.stack[k].list[rendered.stack[k].pos]]

\* C27: on a tree the walk never exhausts the stack; on an input with a cycle
\* the walk notices the cycle and fails: it never walks the subsections of a
\* section whose subsections it is walking already.
C27_CycleDetected ==
    /\ ~Cyclic(renderInput.graph) => rendered.status # "RangeError"
    /\ IsInjective(Path)

\* On a tree every walk returns, and within a bounded number of visits.
C27_TreesReturn ==
    ~Cyclic(renderInput.graph) =>
        /\ rendered.status # "RangeError"
        /\ IsInjective(Path)
        /\ rendered.visits =< MaxSections + MaxSections * MaxSections

(***************************************************************************)
(* C28                                                                     *)
(***************************************************************************)

C29_NeverSplitWhenNarrow ==
    ~(currentView = "both" /\ innerWidth < Breakpoint)

\* What the resize listener does establish: right after a resize the App has
\* handled, the view is not the split one while the viewport is narrower
\* than 768 px.
C29_NotSplitAfterResize ==
    (Resized /\ innerWidth < Breakpoint) => currentView # "both"

\* The split view in a narrow viewport, entered by a content selection.
C29_WitnessContent ==
    /\ lastEvent.kind = "content"
    /\ lastEvent.view = "mindmap"
    /\ currentView = "both"
    /\ innerWidth < Breakpoint

(***************************************************************************)
(* C30                                                                     *)
(***************************************************************************)

\* The timer callbacks run since the latest hide or clear by the user.
FiredSinceHide == {f \in 1..Len(firedLog) : f > lastHide.fired}

\* C30: once the user has hidden the results or cleared the search, no timer
\* set by an input event from before that opens the results again: a search
\* run after it comes from an input event handled after it.
C30_StaysHidden ==
    lastHide.op # "none" =>
        \A f \in FiredSinceHide :
            firedLog[f].searched => firedLog[f].timer > lastHide.inputs

==============================================================================
